---- MODULE Spec2Model ----
(***************************************************************************)
(* prose-writer: the accumulation-and-rendering engine of ProseWriter.     *)
(*                                                                         *)
(* A text is a sequence of one-character strings.  A Writer object holds a *)
(* reference to its parts array (an index into heap) and its                *)
(* _skipNextPadding flag.  Every chainable method is modelled by an        *)
(* operator from the Writer's fields to its fields after the call, and by  *)
(* an action that applies it to one of the live Writers.                   *)
(***************************************************************************)
EXTENDS Integers, Sequences, FiniteSets, TLC

\* ------------------------------------------------------------------------
\* Bounds
\* ------------------------------------------------------------------------
\* the largest number of fragments a Writer's parts array is grown to
MaxParts == 2
\* the largest number of fragments of a Writer and the Writer derived from
\* it, taken together, once the derived Writer exists
MaxDeriveParts == 4
\* the calls made on the safe and on the non-safe Writer of SpecSafe
MaxSafeParts == 1
\* the length of a single text handed to a safe write()
MaxTextLen == 3
\* the length of each of two texts handed to a safe write()
MaxPairTextLen == 1
\* the length of the part of a URL behind its scheme
MaxUrlRest == 2
\* the length of the content of safe inline code
MaxCodeLen == 3
\* the number of calls made on list builders before the list is rendered
MaxBuilderCalls == 4
\* the number of items of a flat list call
MaxFlatItems == 2
\* the number of calls made on the builder of tasks()
MaxTaskCalls == 3
\* the number of fragments of the receiving Writer and the merged Writer together
MaxMergeParts == 3
\* the number of items a list builder collects before its list is compared
\* with the flat form
MaxCollected == 2
\* the number of fragments of a Writer on which section() is compared with
\* heading().append()
MaxSectionParts == 3
\* the length of a line given to blockquote() and the number of lines given
MaxQuoteLen == 2
MaxQuoteLines == 2
\* the number of fragments of a Writer and of its clone
MaxCloneParts == 3

\* ------------------------------------------------------------------------
\* Text primitives (JavaScript string methods used by the source)
\* ------------------------------------------------------------------------
NL == "\n"
SP == " "
\* the backtick character (one character of a text)
BT == "BT"

\* String.prototype.endsWith
EndsWith(s, suf) ==
  /\ Len(s) >= Len(suf)
  /\ SubSeq(s, Len(s) - Len(suf) + 1, Len(s)) = suf

\* the characters String.prototype.trim / trimEnd remove
IsSpace(c) == c \in {" ", "\n", "\t"}

RECURSIVE TrimEnd(_)
TrimEnd(s) ==
  IF s = <<>> THEN <<>>
  ELSE IF IsSpace(s[Len(s)]) THEN TrimEnd(SubSeq(s, 1, Len(s) - 1)) ELSE s

RECURSIVE TrimStart(_)
TrimStart(s) ==
  IF s = <<>> THEN <<>>
  ELSE IF IsSpace(s[1]) THEN TrimStart(Tail(s)) ELSE s

Trim(s) == TrimEnd(TrimStart(s))

\* Array.prototype.join(sep) on an array of texts
RECURSIVE JoinWith(_, _)
JoinWith(xs, sep) ==
  IF xs = <<>> THEN <<>>
  ELSE IF Len(xs) = 1 THEN xs[1]
  ELSE xs[1] \o sep \o JoinWith(Tail(xs), sep)

\* Array.prototype.map
MapSeq(Op(_), xs) == [k \in 1..Len(xs) |-> Op(xs[k])]

\* String.prototype.split('\n'): the lines of a text (one line for '')
RECURSIVE SplitLines(_)
SplitLines(s) ==
  IF \A k \in 1..Len(s) : s[k] # NL THEN <<s>>
  ELSE LET k == CHOOSE j \in 1..Len(s) :
                  s[j] = NL /\ \A m \in 1..(j - 1) : s[m] # NL
       IN <<SubSeq(s, 1, k - 1)>> \o SplitLines(SubSeq(s, k + 1, Len(s)))

\* '#'.repeat(level)
RECURSIVE Repeat(_, _)
Repeat(c, n) == IF n <= 0 THEN <<>> ELSE <<c>> \o Repeat(c, n - 1)

\* String(n) for a non-negative integer
Digit(d) == <<"0", "1", "2", "3", "4", "5", "6", "7", "8", "9">>[d + 1]
RECURSIVE NumToString(_)
NumToString(n) ==
  IF n < 10 THEN <<Digit(n)>> ELSE NumToString(n \div 10) \o <<Digit(n % 10)>>

\* the number of newline characters a text ends with
RECURSIVE TrailingNewlines(_)
TrailingNewlines(s) ==
  IF s = <<>> \/ s[Len(s)] # NL THEN 0
  ELSE 1 + TrailingNewlines(SubSeq(s, 1, Len(s) - 1))

\* the number of newline characters a text starts with
RECURSIVE LeadingNewlines(_)
LeadingNewlines(s) ==
  IF s = <<>> \/ s[1] # NL THEN 0 ELSE 1 + LeadingNewlines(Tail(s))

\* TRUE iff the text holds a run of n or more consecutive newlines
HasNewlineRun(s, n) ==
  \E k \in 1..(Len(s) - n + 1) : \A m \in 0..(n - 1) : s[k + m] = NL

HasNewline(s) == \E k \in 1..Len(s) : s[k] = NL

\* ------------------------------------------------------------------------
\* ProseWriter: fields, constructor, toString, padding
\* ------------------------------------------------------------------------
\* parts.join('')
RECURSIVE ConcatAll(_)
ConcatAll(ps) == IF ps = <<>> THEN <<>> ELSE Head(ps) \o ConcatAll(Tail(ps))

toString(w) == ConcatAll(w.parts)

\* new ProseWriter(): parts = [], _skipNextPadding = false
empty == [parts |-> <<>>, skip |-> FALSE]

\* new ProseWriter(content)
constructor(content) ==
  [parts |-> <<IF EndsWith(content, <<NL>>) THEN content ELSE content \o <<NL>>>>,
   skip  |-> FALSE]

\* padding with the two endsWith tests in the wrong order
paddingNoPromote(w) ==
  IF w.skip \/ Len(w.parts) = 0
  THEN [p |-> <<>>, skip |-> FALSE]
  ELSE LET lastPart == w.parts[Len(w.parts)]
       IN IF EndsWith(lastPart, <<NL>>) THEN [p |-> <<>>, skip |-> w.skip]
          ELSE [p |-> <<NL, NL>>, skip |-> w.skip]

\* padding that clears _skipNextPadding without honouring it
paddingIgnoreSkip(w) ==
  IF Len(w.parts) = 0
  THEN [p |-> <<>>, skip |-> FALSE]
  ELSE LET lastPart == w.parts[Len(w.parts)]
       IN IF EndsWith(lastPart, <<NL, NL>>) THEN [p |-> <<>>, skip |-> FALSE]
          ELSE IF EndsWith(lastPart, <<NL>>) THEN [p |-> <<NL>>, skip |-> FALSE]
          ELSE [p |-> <<NL, NL>>, skip |-> FALSE]

\* the padding getter: the prefix it returns and the flag it leaves
padding(w) ==
  IF w.skip \/ Len(w.parts) = 0
  THEN [p |-> <<>>, skip |-> FALSE]
  ELSE LET lastPart == w.parts[Len(w.parts)]
       IN IF EndsWith(lastPart, <<NL, NL>>) THEN [p |-> <<>>, skip |-> w.skip]
          ELSE IF EndsWith(lastPart, <<NL>>) THEN [p |-> <<NL>>, skip |-> w.skip]
          ELSE [p |-> <<NL, NL>>, skip |-> w.skip]

\* pushPadded that joins the new text to the last stored fragment
pushPaddedJoined(w, body) ==
  LET pd == padding(w)
      n == Len(w.parts)
  IN [parts |-> IF n = 0 THEN <<pd.p \o body>>
                ELSE [w.parts EXCEPT ![n] = @ \o pd.p \o body],
      skip |-> pd.skip]

\* this.parts.push(`${this.padding}${body}`)
pushPadded(w, body) ==
  LET pd == padding(w)
  IN [parts |-> Append(w.parts, pd.p \o body), skip |-> pd.skip]

\* ------------------------------------------------------------------------
\* Content values.  A value handed to a method is a string, a number or a
\* ProseWriter:  [k |-> "s", v |-> text], [k |-> "n", v |-> number],
\* [k |-> "w", v |-> the fields of the Writer].
\* ------------------------------------------------------------------------
S(t) == [k |-> "s", v |-> t]
N(n) == [k |-> "n", v |-> n]
W(w) == [k |-> "w", v |-> w]

\* String(c) of a string or a number
String(c) == IF c.k = "n" THEN NumToString(c.v) ELSE c.v

\* ------------------------------------------------------------------------
\* Standalone inline formatters
\* ------------------------------------------------------------------------
inlineText(c) == IF c.k = "w" THEN Trim(toString(c.v)) ELSE String(c)

bold(c) == <<"*", "*">> \o inlineText(c) \o <<"*", "*">>
italic(c) == <<"*">> \o inlineText(c) \o <<"*">>
code(c) == <<BT>> \o inlineText(c) \o <<BT>>
inline(c) == code(c)
strike(c) == <<"~", "~">> \o inlineText(c) \o <<"~", "~">>
link(text, url) == <<"[">> \o inlineText(text) \o <<"]", "(">> \o url \o <<")">>
image(alt, url) == <<"!", "[">> \o inlineText(alt) \o <<"]", "(">> \o url \o <<")">>

\* ------------------------------------------------------------------------
\* write, nextLine, raw, append
\* ------------------------------------------------------------------------
writeValue(c) == IF c.k = "w" THEN TrimEnd(toString(c.v)) ELSE String(c)

writeJoined(content) == JoinWith(MapSeq(writeValue, content), <<SP>>)

write(w, content) ==
  LET joined == writeJoined(content)
  IN IF Len(w.parts) = 0 /\ Len(joined) = 0 THEN w
     ELSE pushPadded(w, joined \o <<NL>>)

nextLine(w) == [w EXCEPT !.skip = TRUE]

raw(w, content) == [w EXCEPT !.parts = Append(w.parts, content)]

\* append that pushes whatever the other Writer renders
appendAlways(w, writer) == pushPadded(w, toString(writer))

append(w, writer) ==
  LET content == toString(writer)
  IN IF Len(content) > 0 THEN pushPadded(w, content) ELSE w

\* ------------------------------------------------------------------------
\* Lists and comment.  Each operator is the fragment the method hands to
\* this.parts.push after `${this.padding}`.  The argument of a list method
\* is [builder |-> FALSE, items |-> the item values] or [builder |-> TRUE,
\* items |-> the calls the builder callback makes on the ListBuilder].
\* ------------------------------------------------------------------------
comment(content) ==
  <<"<", "!", "-", "-", SP>> \o content \o <<SP, "-", "-", ">", NL, NL>>

Flat(items) == [builder |-> FALSE, items |-> items]
Built(calls) == [builder |-> TRUE, items |-> calls]

\* item.toString().trimEnd().split('\n').map(line => `  ${line}`).join('\n')
\* nestedItem that indents the first line only
nestedItemFirstLine(writer) ==
  <<SP, SP>> \o TrimEnd(toString(writer))

nestedItem(writer) ==
  JoinWith(MapSeq(LAMBDA line : <<SP, SP>> \o line,
                  SplitLines(TrimEnd(toString(writer)))), <<NL>>)

unorderedItem(item) ==
  IF item.k = "w" THEN nestedItem(item.v) ELSE <<"-", SP>> \o String(item)

RECURSIVE orderedItems(_, _)
\* orderedItems whose index also advances on a nested Writer
orderedItemsCountingWriters(items, index) ==
  IF items = <<>> THEN <<>>
  ELSE IF Head(items).k = "w"
  THEN <<nestedItem(Head(items).v)>> \o orderedItems(Tail(items), index + 1)
  ELSE <<NumToString(index) \o <<".", SP>> \o String(Head(items))>>
         \o orderedItems(Tail(items), index + 1)

orderedItems(items, index) ==
  IF items = <<>> THEN <<>>
  ELSE IF Head(items).k = "w"
  THEN <<nestedItem(Head(items).v)>> \o orderedItems(Tail(items), index)
  ELSE <<NumToString(index) \o <<".", SP>> \o String(Head(items))>>
         \o orderedItems(Tail(items), index + 1)

\* checkbox that is never ticked
checkboxUnticked(checked) == <<"[", SP, "]", SP>>

checkbox(checked) == IF checked THEN <<"[", "x", "]", SP>> ELSE <<"[", SP, "]", SP>>

\* write(...content).toString().trimEnd() of the module-level write
writtenText(content) == TrimEnd(toString(write(empty, content)))

RECURSIVE unorderedList(_)
RECURSIVE orderedList(_)
RECURSIVE getItems(_)

\* createListBuilder: the items collected by the calls made on the builder
getItems(calls) ==
  IF calls = <<>> THEN <<>>
  ELSE LET c == Head(calls)
           item ==
             CASE c.m = "item" -> S(writtenText(c.content))
               [] c.m = "task" -> S(checkbox(c.checked) \o writtenText(c.content))
               [] c.m = "todo" -> S(checkbox(FALSE) \o writtenText(c.content))
               [] c.m = "done" -> S(checkbox(TRUE) \o writtenText(c.content))
               [] c.m = "unorderedList" -> W(pushPadded(empty, unorderedList(c.args)))
               [] c.m = "list" -> W(pushPadded(empty, unorderedList(c.args)))
               [] c.m = "orderedList" -> W(pushPadded(empty, orderedList(c.args)))
               [] c.m = "comment" -> W(pushPadded(empty, comment(c.content)))
       IN <<item>> \o getItems(Tail(calls))

unorderedList(args) ==
  IF args.builder THEN unorderedList(Flat(getItems(args.items)))
  ELSE LET listContent == JoinWith(MapSeq(unorderedItem, args.items), <<NL>>)
       IN listContent \o <<NL, NL>>

list(args) == unorderedList(args)

orderedList(args) ==
  IF args.builder THEN orderedList(Flat(getItems(args.items)))
  ELSE LET listContent == JoinWith(orderedItems(args.items, 1), <<NL>>)
       IN listContent \o <<NL, NL>>

\* a flat task argument is a value or a pair [k |-> "p", v |-> value, checked]
taskItem(arg) ==
  IF arg.k = "p" THEN checkbox(arg.checked) \o writtenText(<<arg.v>>)
  ELSE checkbox(FALSE) \o writtenText(<<arg>>)

tasks(args) ==
  IF args.builder
  THEN LET listContent == JoinWith(MapSeq(unorderedItem, getItems(args.items)), <<NL>>)
       IN listContent \o <<NL, NL>>
  ELSE LET items == MapSeq(taskItem, args.items)
           listContent == JoinWith(MapSeq(LAMBDA item : <<"-", SP>> \o item, items), <<NL>>)
       IN listContent \o <<NL, NL>>

\* ------------------------------------------------------------------------
\* Block formatters.  Each operator is the fragment the method hands to
\* this.parts.push after `${this.padding}`.  A builder callback is given by
\* the child Writer it leaves behind: [k |-> "f", v |-> the child's fields
\* after the callback].
\* ------------------------------------------------------------------------
F(child) == [k |-> "f", v |-> child]

heading(level, content) ==
  LET hashes == Repeat("#", level)
      joined == JoinWith(content, <<SP>>)
  IN hashes \o <<SP>> \o joined \o <<NL, NL>>

blockquote(lines) ==
  LET quotedLines == JoinWith(MapSeq(LAMBDA line : <<">", SP>> \o line, lines),
                              <<NL, ">", NL>>)
  IN quotedLines \o <<NL, NL>>

codeblock(language, content) ==
  LET body == IF content.k = "f" THEN Trim(toString(content.v)) ELSE content.v
  IN <<BT, BT, BT>> \o language \o <<NL>> \o body \o <<NL, BT, BT, BT, NL, NL>>

separator == <<"-", "-", "-", NL, NL>>

\* JSON.stringify(data, null, 2) and toYamlString(data), for a number
json(data) ==
  LET jsonString == IF data.k = "s" THEN data.v ELSE NumToString(data.v)
  IN codeblock(<<"j", "s", "o", "n">>, S(jsonString))

yaml(data) ==
  LET yamlString == IF data.k = "s" THEN data.v ELSE NumToString(data.v)
  IN codeblock(<<"y", "a", "m", "l">>, S(yamlString))

tag(name, content) ==
  LET contentString == IF content.k \in {"f", "w"} THEN toString(content.v)
                       ELSE content.v
  IN <<"<">> \o name \o <<">", NL>> \o TrimEnd(contentString)
       \o <<NL, "<", "/">> \o name \o <<">", NL>>

codeMethod(content) == code(content) \o <<NL>>
boldMethod(content) == bold(content) \o <<NL>>
italicMethod(content) == italic(content) \o <<NL>>
strikeMethod(content) == strike(content) \o <<NL>>
linkMethod(text, url) == link(text, url) \o <<NL>>
imageMethod(alt, url) == image(alt, url) \o <<NL>>

section(name, builder, level) ==
  LET sectionWriter == builder.v
      hashes == Repeat("#", level)
  IN hashes \o <<SP>> \o name \o <<NL, NL>> \o toString(sectionWriter)

\* a row is [array |-> TRUE, values |-> the cells] or
\* [array |-> FALSE, values |-> a function from some headers to cell values]
tableRow(headers, row) ==
  LET values == IF row.array THEN row.values
                ELSE MapSeq(LAMBDA hd : IF hd \in DOMAIN row.values
                                        THEN String(row.values[hd]) ELSE <<>>,
                            headers)
  IN <<"|", SP>> \o JoinWith(values, <<SP, "|", SP>>) \o <<SP, "|">>

table(headers, rows) ==
  LET headerRow == <<"|", SP>> \o JoinWith(headers, <<SP, "|", SP>>) \o <<SP, "|">>
      separatorRow == <<"|", SP>>
                        \o JoinWith(MapSeq(LAMBDA hd : <<"-", "-", "-">>, headers),
                                    <<SP, "|", SP>>)
                        \o <<SP, "|">>
      dataRows == JoinWith(MapSeq(LAMBDA row : tableRow(headers, row), rows), <<NL>>)
  IN headerRow \o <<NL>> \o separatorRow \o <<NL>> \o dataRows
                     \o <<NL, NL>>

\* obj is the sequence of its [key, value] entries in insertion order
definitions(obj) ==
  LET entries == JoinWith(MapSeq(LAMBDA e : <<"*", "*">> \o e[1] \o <<"*", "*", ":", SP>>
                                              \o e[2], obj), <<NL>>)
  IN entries \o <<NL, NL>>

delimit(open, close, content) ==
  LET contentString == IF content.k = "w" THEN toString(content.v) ELSE content.v
  IN open \o <<NL>> \o contentString \o <<NL>> \o close \o <<NL>>

\* ------------------------------------------------------------------------
\* Derivation: fill, clone, compact, trim; static empty, join, fromTemplate
\* ------------------------------------------------------------------------
\* \w of a regular expression
IsWord(c) ==
  c \in {"a", "b", "c", "d", "e", "f", "g", "h", "i", "j", "k", "l", "m", "n",
         "o", "p", "q", "r", "s", "t", "u", "v", "w", "x", "y", "z",
         "0", "1", "2", "3", "4", "5", "6", "7", "8", "9", "_"}

RECURSIVE WordRun(_)
WordRun(s) == IF s = <<>> \/ ~IsWord(s[1]) THEN 0 ELSE 1 + WordRun(Tail(s))

\* the length of the match of /\{\{(\w+)\}\}/ at the start of s, 0 if none
placeholderLength(s) ==
  IF Len(s) >= 5 /\ s[1] = "{" /\ s[2] = "{"
  THEN LET n == WordRun(SubSeq(s, 3, Len(s)))
       IN IF n >= 1 /\ Len(s) >= n + 4 /\ s[n + 3] = "}" /\ s[n + 4] = "}"
          THEN n + 4 ELSE 0
  ELSE 0

\* content.replace(/\{\{(\w+)\}\}/g, (match, key) => variables[key] ?? match)
RECURSIVE replacePlaceholders(_, _)
replacePlaceholders(s, variables) ==
  IF s = <<>> THEN <<>>
  ELSE LET n == placeholderLength(s)
       IN IF n > 0
          THEN LET key == SubSeq(s, 3, n - 2)
               IN (IF key \in DOMAIN variables THEN variables[key] ELSE SubSeq(s, 1, n))
                    \o replacePlaceholders(SubSeq(s, n + 1, Len(s)), variables)
          ELSE <<s[1]>> \o replacePlaceholders(Tail(s), variables)

fill(w, variables) == constructor(replacePlaceholders(toString(w), variables))

\* content.replace(/\n{3}/g, '\n\n'): the quantifier without its comma
RECURSIVE collapseTriples(_)
collapseTriples(s) ==
  IF s = <<>> THEN <<>>
  ELSE IF LeadingNewlines(s) >= 3
  THEN <<NL, NL>> \o collapseTriples(SubSeq(s, 4, Len(s)))
  ELSE <<s[1]>> \o collapseTriples(Tail(s))

\* content.replace(/\n{3,}/g, '\n\n')
RECURSIVE collapseNewlines(_)
collapseNewlines(s) ==
  IF s = <<>> THEN <<>>
  ELSE LET n == LeadingNewlines(s)
       IN IF n >= 3 THEN <<NL, NL>> \o collapseNewlines(SubSeq(s, n + 1, Len(s)))
          ELSE IF n >= 1 THEN SubSeq(s, 1, n) \o collapseNewlines(SubSeq(s, n + 1, Len(s)))
          ELSE <<s[1]>> \o collapseNewlines(Tail(s))

compact(w) == constructor(collapseNewlines(toString(w)))

\* trim() written with trimEnd()
trimEndOnly(w) == constructor(TrimEnd(toString(w)))

trim(w) == constructor(Trim(toString(w)))

\* the fields of the Writer clone() returns
clone(w) == [parts |-> w.parts, skip |-> FALSE]

\* cloned.parts = this.parts: the clone keeps the receiver's array
sameArray(source, fresh) == source

\* cloned.parts = [...this.parts]: the reference of the clone's parts
\* array, a fresh array and not the receiver's (source)
spreadCopy(source, fresh) == fresh

join(writers) == [parts |-> MapSeq(toString, writers), skip |-> FALSE]

fromTemplate(template) == constructor(template)

\* ------------------------------------------------------------------------
\* State
\* ------------------------------------------------------------------------
VARIABLES
  heap,   \* heap[a]: the parts array with reference a
  ws,     \* ws[i]: Writer i, [arr |-> its parts reference (0: not created),
          \*                   skip |-> its _skipNextPadding]
  h,      \* the last two calls: [cur |-> call, prev |-> call]
  clean   \* no call so far was raw(), a write() with empty joined content,
          \* or was given a string holding a newline

vars == <<heap, ws, h, clean>>

Writers == 1..2
Arrays == 1..2

\* the fields of Writer i
View(i) == [parts |-> heap[ws[i].arr], skip |-> ws[i].skip]

Live(i) == ws[i].arr # 0

\* the record of one call: the method, the Writer it was made on, that
\* Writer's fields before the call, the prefix the padding getter returned,
\* the fragment built after the prefix, whether a fragment was pushed and
\* whether the padding getter was read
Call(op, on, pre, pad, body, added, padded) ==
  [op |-> op, on |-> on, pre |-> pre, pad |-> pad, body |-> body,
   added |-> added, padded |-> padded]

NoCall == Call("new", 0, empty, <<>>, <<>>, FALSE, FALSE)

\* store the fields w2 of Writer i after a call
Store(i, w2, call, ok) ==
  /\ heap' = [heap EXCEPT ![ws[i].arr] = w2.parts]
  /\ ws' = [ws EXCEPT ![i].skip = w2.skip]
  /\ h' = [cur |-> call, prev |-> h.cur]
  /\ clean' = (clean /\ ok)

\* the parts arrays may still grow
Room ==
  IF Live(2) THEN Len(heap[1]) + Len(heap[2]) < MaxDeriveParts
  ELSE Len(heap[1]) < MaxParts

\* this.parts.push(`${this.padding}${fragment}`) on Writer i
Emit(i, op, fragment, ok) ==
  /\ Room
  /\ Store(i, pushPadded(View(i), fragment),
           Call(op, i, View(i), padding(View(i)).p, fragment, TRUE, TRUE), ok)

\* ------------------------------------------------------------------------
\* Arguments
\* ------------------------------------------------------------------------
A == <<"a">>
B == <<"b">>
ANL == <<"a", NL>>

\* Writers handed over as content, and children left behind by callbacks
childEmpty == empty
childLine == write(empty, <<S(A)>>)
childHeading == pushPadded(empty, heading(1, <<A>>))
Children == {childEmpty, childLine, childHeading}

Levels == {1, 2}
Clean(t) == ~HasNewline(t)

WriteArgs ==
  {<<>>, <<S(<<>>)>>, <<S(A)>>, <<S(A), N(12)>>, <<S(ANL)>>, <<W(childLine)>>}

ListArgs ==
  {Flat(<<>>), Flat(<<S(A), W(childLine), N(2)>>),
   Built(<<[m |-> "item", content |-> <<S(A), S(B)>>],
           [m |-> "list", args |-> Flat(<<S(B)>>)]>>)}

TaskArgs ==
  {Flat(<<>>), Flat(<<[k |-> "p", v |-> S(A), checked |-> TRUE], S(B)>>),
   Built(<<[m |-> "done", content |-> <<S(A)>>],
           [m |-> "todo", content |-> <<S(B)>>],
           [m |-> "orderedList", args |-> Built(<<[m |-> "task", checked |-> TRUE,
                                                   content |-> <<S(A)>>]>>)]>>)}

ArgsClean(content) ==
  \A k \in 1..Len(content) : content[k].k = "s" => Clean(content[k].v)

ItemsClean(args) ==
  args.builder \/ \A k \in 1..Len(args.items) :
                     /\ args.items[k].k = "s" => Clean(args.items[k].v)
                     /\ args.items[k].k = "p" => Clean(String(args.items[k].v))

\* ------------------------------------------------------------------------
\* Calls on Writer i
\* ------------------------------------------------------------------------
WriteWith(i, content) ==
  LET pre == View(i)
      joined == writeJoined(content)
      noop == Len(pre.parts) = 0 /\ Len(joined) = 0
  IN /\ Live(i)
     /\ Room
     /\ Store(i, write(pre, content),
              Call("write", i, pre, IF noop THEN <<>> ELSE padding(pre).p,
                   joined \o <<NL>>, ~noop, ~noop),
              ArgsClean(content) /\ Len(joined) > 0)

Write(i) == \E content \in WriteArgs : WriteWith(i, content)

NextLine(i) ==
  /\ Live(i)
  /\ Store(i, nextLine(View(i)),
           Call("nextLine", i, View(i), <<>>, <<>>, FALSE, FALSE), TRUE)

RawWith(i, content) ==
  /\ Live(i)
  /\ Room
  /\ Store(i, raw(View(i), content),
           Call("raw", i, View(i), <<>>, content, TRUE, FALSE), FALSE)

Raw(i) == \E content \in {<<>>, <<"x">>} : RawWith(i, content)

AppendWriter(i) ==
  \E writer \in {childEmpty, childLine, raw(empty, <<"x">>)} :
    LET pre == View(i)
        content == toString(writer)
        pushed == Len(content) > 0
    IN /\ Live(i)
       /\ Room
       /\ Store(i, append(pre, writer),
                Call("append", i, pre, IF pushed THEN padding(pre).p ELSE <<>>,
                     content, pushed, pushed), writer \in Children)

UnorderedList(i) ==
  \E args \in ListArgs :
    /\ Live(i)
    /\ Emit(i, "unorderedList", unorderedList(args), ItemsClean(args))

List(i) ==
  \E args \in {Flat(<<S(A), S(B)>>)} :
    /\ Live(i)
    /\ Emit(i, "list", list(args), ItemsClean(args))

OrderedList(i) ==
  \E args \in ListArgs :
    /\ Live(i)
    /\ Emit(i, "orderedList", orderedList(args), ItemsClean(args))

Tasks(i) ==
  \E args \in TaskArgs :
    /\ Live(i)
    /\ Emit(i, "tasks", tasks(args), ItemsClean(args))

Heading(i) ==
  \E level \in Levels, content \in {<<A, B>>, <<ANL>>} :
    /\ Live(i)
    /\ Emit(i, "heading", heading(level, content),
            \A k \in 1..Len(content) : Clean(content[k]))

Blockquote(i) ==
  \E lines \in {<<>>, <<A, B>>} :
    /\ Live(i)
    /\ Emit(i, "blockquote", blockquote(lines), TRUE)

Codeblock(i) ==
  \E content \in {S(<<>>), S(A), F(childLine)} :
    /\ Live(i)
    /\ Emit(i, "codeblock", codeblock(<<"j", "s">>, content),
            content.k = "s" => Clean(content.v))

Separator(i) ==
  /\ Live(i)
  /\ Emit(i, "separator", separator, TRUE)

Json(i) ==
  \E data \in {N(7)} :
    /\ Live(i)
    /\ Emit(i, "json", json(data), TRUE)

Yaml(i) ==
  \E data \in {S(A)} :
    /\ Live(i)
    /\ Emit(i, "yaml", yaml(data), TRUE)

Tag(i) ==
  \E content \in {S(A), W(childHeading), F(childLine)} :
    /\ Live(i)
    /\ Emit(i, "tag", tag(<<"t">>, content), content.k = "s" => Clean(content.v))

Code(i) ==
  \E content \in {S(A)} :
    /\ Live(i)
    /\ Emit(i, "code", codeMethod(content), TRUE)

Bold(i) ==
  \E content \in {S(A), W(childLine)} :
    /\ Live(i)
    /\ Emit(i, "bold", boldMethod(content), TRUE)

Italic(i) ==
  \E content \in {N(3)} :
    /\ Live(i)
    /\ Emit(i, "italic", italicMethod(content), TRUE)

Strike(i) ==
  \E content \in {W(childHeading)} :
    /\ Live(i)
    /\ Emit(i, "strike", strikeMethod(content), TRUE)

Link(i) ==
  \E text \in {S(A)} :
    /\ Live(i)
    /\ Emit(i, "link", linkMethod(text, <<"u">>), TRUE)

Image(i) ==
  \E alt \in {W(childLine)} :
    /\ Live(i)
    /\ Emit(i, "image", imageMethod(alt, <<"u">>), TRUE)

Section(i) ==
  \E builder \in {F(c) : c \in Children} :
    /\ Live(i)
    /\ Emit(i, "section", section(A, builder, 2), TRUE)

Table(i) ==
  \E rows \in {<<>>,
               <<[array |-> FALSE, values |-> (A :> S(B))],
                 [array |-> TRUE, values |-> <<B, A>>]>>} :
    /\ Live(i)
    /\ Emit(i, "table", table(<<A, B>>, rows), TRUE)

Definitions(i) ==
  \E obj \in {<<>>, <<<<A, B>>, <<B, ANL>>>>} :
    /\ Live(i)
    /\ Emit(i, "definitions", definitions(obj),
            \A k \in 1..Len(obj) : Clean(obj[k][1]) /\ Clean(obj[k][2]))

Comment(i) ==
  \E content \in {A} :
    /\ Live(i)
    /\ Emit(i, "comment", comment(content), TRUE)

Delimit(i) ==
  \E content \in {S(A), W(childHeading)} :
    /\ Live(i)
    /\ Emit(i, "delimit", delimit(<<"(">>, <<")">>, content), TRUE)

\* every chainable call on Writer i
Chain(i) ==
  \/ Write(i) \/ NextLine(i) \/ Raw(i) \/ AppendWriter(i)
  \/ UnorderedList(i) \/ List(i) \/ OrderedList(i) \/ Tasks(i)
  \/ Heading(i) \/ Blockquote(i) \/ Codeblock(i) \/ Separator(i)
  \/ Json(i) \/ Yaml(i) \/ Tag(i) \/ Code(i) \/ Bold(i) \/ Italic(i)
  \/ Strike(i) \/ Link(i) \/ Image(i) \/ Section(i) \/ Table(i)
  \/ Definitions(i) \/ Comment(i) \/ Delimit(i)

\* ------------------------------------------------------------------------
\* One Writer, from its construction on
\* ------------------------------------------------------------------------
\* the Writers construction yields: new ProseWriter() / ProseWriter.empty(),
\* new ProseWriter(content), ProseWriter.fromTemplate(template),
\* ProseWriter.join(...writers); with whether a string held a newline
Constructed ==
  {[w |-> empty, ok |-> TRUE],
   [w |-> constructor(A), ok |-> TRUE],
   [w |-> constructor(<<>>), ok |-> TRUE],
   [w |-> fromTemplate(ANL), ok |-> FALSE],
   [w |-> join(<<empty>>), ok |-> TRUE],
   [w |-> join(<<childLine, childHeading>>), ok |-> TRUE]}

Init ==
  \E c \in Constructed :
    /\ heap = [a \in Arrays |-> IF a = 1 THEN c.w.parts ELSE <<>>]
    /\ ws = [i \in Writers |-> IF i = 1 THEN [arr |-> 1, skip |-> c.w.skip]
                                        ELSE [arr |-> 0, skip |-> FALSE]]
    /\ h = [cur |-> NoCall, prev |-> NoCall]
    /\ clean = c.ok

Next == Chain(1)

Spec == Init /\ [][Next]_vars

\* ------------------------------------------------------------------------
\* Properties of the padding engine (one Writer)
\* ------------------------------------------------------------------------
\* the methods that push a fragment after the padding prefix
BlockAppenders ==
  {"write", "unorderedList", "list", "orderedList", "tasks", "heading",
   "blockquote", "codeblock", "separator", "json", "yaml", "tag", "table",
   "definitions", "comment", "delimit", "section", "append", "bold", "italic",
   "strike", "code", "link", "image"}

HasContent(t) == \E k \in 1..Len(t) : t[k] # NL

\* the rendered text of the Writer the last call was made on
Rendered == toString(View(h.cur.on))

\* the newlines in front of the place where the last call's fragment starts
BoundaryNewlines == TrailingNewlines(toString(h.cur.pre) \o h.cur.pad)

\* the last two calls both pushed a fragment through the padding
ConsecutiveAppends ==
  /\ h.cur.op \in BlockAppenders /\ h.cur.added
  /\ h.prev.op \in BlockAppenders /\ h.prev.added
  /\ ~h.cur.pre.skip

\* C1: two consecutive block-level appends with no nextLine() between them
\* are separated by exactly two newlines, whatever their arguments (stated
\* here for the calls whose strings hold no newline).
C1_ParagraphBreak ==
  (clean /\ ConsecutiveAppends) => BoundaryNewlines = 2

\* C2: without raw(), without a write() of empty joined content and without
\* newlines in string arguments, the rendered text never holds three or more
\* consecutive newlines.
C2_NoTripleNewline ==
  clean => ~HasNewlineRun(toString(View(1)), 3)

\* the prefix the padding rule prescribes for a Writer with fields w
RulePrefix(w) ==
  IF w.skip \/ w.parts = <<>> THEN <<>>
  ELSE LET n == TrailingNewlines(w.parts[Len(w.parts)])
       IN IF n >= 2 THEN <<>> ELSE IF n = 1 THEN <<NL>> ELSE <<NL, NL>>

GluedAppend ==
  /\ h.cur.padded /\ h.cur.pre.skip
  /\ h.cur.pre.parts # <<>>

C6_EmptyWriteNoop ==
  (/\ h.cur.op = "write" /\ h.cur.body = <<NL>>
   /\ toString(h.cur.pre) = <<>>)
  => Rendered = <<>>

\* the newlines between the content of a Writer with fields w and the
\* content of a block appended to it next
GapBefore(w) == TrailingNewlines(toString(w) \o padding(w).p)

\* C7: on a non-empty Writer w, w.write().B has exactly one more newline
\* between w's content and B's content than w.B (stated here for Writers
\* with no pending nextLine() built without raw() and newline strings).
C7_WriteAddsOneBlankLine ==
  (/\ clean /\ h.cur.added /\ ~View(1).skip
   /\ HasContent(toString(View(1))))
  => GapBefore(write(View(1), <<>>)) = GapBefore(View(1)) + 1

\* ------------------------------------------------------------------------
\* Derivation: Writer 2 is derived from Writer 1, then both are used
\* ------------------------------------------------------------------------
Placeholder == <<SP, "{", "{", "a", "}", "}", SP>>

\* Writer 2 becomes the Writer with fields derived over the parts array arr
Derive(op, derived, arr) ==
  /\ heap' = [heap EXCEPT ![arr] = derived.parts]
  /\ ws' = [ws EXCEPT ![2] = [arr |-> arr, skip |-> derived.skip]]
  /\ h' = [cur |-> Call(op, 1, View(1), <<>>, <<>>, FALSE, FALSE), prev |-> h.cur]
  /\ clean' = clean

Clone ==
  /\ Live(1) /\ ~Live(2)
  /\ Derive("clone", clone(View(1)), spreadCopy(ws[1].arr, 2))

Fill ==
  \E variables \in {<<>>, (A :> B)} :
    /\ Live(1) /\ ~Live(2)
    /\ Derive("fill", fill(View(1), variables), 2)

Compact ==
  /\ Live(1) /\ ~Live(2)
  /\ Derive("compact", compact(View(1)), 2)

TrimWriter ==
  /\ Live(1) /\ ~Live(2)
  /\ Derive("trim", trim(View(1)), 2)

DeriveOps == {"clone", "fill", "compact", "trim"}

DWrite(i) == \E content \in {<<>>, <<S(A)>>} : WriteWith(i, content)

DRaw(i) == \E content \in {<<NL, NL, NL, NL>>, <<SP, "x">>} : RawWith(i, content)

InitDerive ==
  \E w \in {empty, constructor(A), fromTemplate(Placeholder)} :
    /\ heap = [a \in Arrays |-> IF a = 1 THEN w.parts ELSE <<>>]
    /\ ws = [i \in Writers |-> IF i = 1 THEN [arr |-> 1, skip |-> w.skip]
                                        ELSE [arr |-> 0, skip |-> FALSE]]
    /\ h = [cur |-> NoCall, prev |-> NoCall]
    /\ clean = TRUE

NextDerive ==
  \/ Clone \/ Fill \/ Compact \/ TrimWriter
  \/ \E i \in Writers : DWrite(i) \/ NextLine(i) \/ DRaw(i)

SpecDerive == InitDerive /\ [][NextDerive]_vars

\* C8: clone(), fill(), trim() and compact() leave the receiver untouched
\* (fragments, rendered text, pending nextLine flag); afterwards no call on
\* the returned Writer changes the receiver's rendered text and no call on
\* the receiver changes the returned Writer's rendered text.
C8_DerivedIndependent ==
  [][/\ (h'.cur.op \in DeriveOps /\ ~Live(2)) => View(1)' = View(1)
     /\ (Live(2) /\ h'.cur.on = 2) => toString(View(1))' = toString(View(1))
     /\ (Live(2) /\ h'.cur.on = 1) => toString(View(2))' = toString(View(2))]_vars

C8_Witness ==
  /\ Live(2)
  /\ h.prev.op = "clone"
  /\ h.cur.on = 2 /\ h.cur.added
  /\ toString(View(2)) # toString(View(1))
  /\ toString(View(1)) # <<>>

\* C9: compact() is idempotent on rendered text, and the text it yields
\* holds no run of three or more consecutive newlines.
C9_CompactIdempotent ==
  /\ \A i \in Writers :
       Live(i) =>
         LET once == compact(View(i))
         IN /\ toString(compact(once)) = toString(once)
            /\ ~HasNewlineRun(toString(once), 3)
  /\ h.cur.op = "compact" =>
       /\ ~HasNewlineRun(toString(View(2)), 3)
       /\ toString(compact(View(2))) = toString(View(2))

C9_Witness ==
  /\ h.cur.op = "compact"
  /\ HasNewlineRun(toString(View(1)), 4)
  /\ HasContent(toString(View(2)))
  /\ toString(View(2)) # toString(View(1))

\* the text t is the text s without its leading and trailing whitespace
IsTrimOf(t, s) ==
  /\ t # <<>> => (~IsSpace(t[1]) /\ ~IsSpace(t[Len(t)]))
  /\ \E k \in 0..(Len(s) - Len(t)) :
       /\ SubSeq(s, k + 1, k + Len(t)) = t
       /\ \A m \in 1..Len(s) : (m <= k \/ m > k + Len(t)) => IsSpace(s[m])

None == [k |-> "none"]

IsDigit(c) == c \in {"0", "1", "2", "3", "4", "5", "6", "7", "8", "9"}

DigitValue(c) == CHOOSE d \in 0..9 : Digit(d) = c

RECURSIVE NumberOf(_)
NumberOf(t) ==
  IF t = <<>> THEN 0
  ELSE 10 * NumberOf(SubSeq(t, 1, Len(t) - 1)) + DigitValue(t[Len(t)])

\* JSON.parse(text), for texts that are a JSON number or no JSON at all
JSONparse(t) ==
  IF /\ t # <<>>
     /\ \A k \in 1..Len(t) : IsDigit(t[k])
     /\ (Len(t) > 1 => t[1] # "0")
  THEN [ok |-> TRUE, value |-> N(NumberOf(t))]
  ELSE [ok |-> FALSE, message |-> "Invalid JSON string: Unexpected token"]

\* options.parseYaml(data): the injected parser returns its value or throws
parseYaml(parser, data) ==
  IF parser.throws
  THEN [ok |-> FALSE, message |-> "Invalid YAML string: parse error"]
  ELSE [ok |-> TRUE, value |-> parser.returns]

\* new ValidationError(format, issues, label)
ValidationError(format, issues, label) ==
  [name |-> "ValidationError", format |-> format, issues |-> issues,
   title |-> IF label = None THEN <<format, "validation failed">> ELSE label.v]

\* validationData without the two parse steps
validationDataUnparsed(format, data, options) == [ok |-> TRUE, value |-> data]

\* validateOutput, the value handed to the validator: the parse steps
validationData(format, data, options) ==
  IF format = "json" /\ data.k = "s" THEN JSONparse(data.v)
  ELSE IF format = "yaml" /\ data.k = "s" /\ options.parseYaml # None
  THEN parseYaml(options.parseYaml, data.v)
  ELSE [ok |-> TRUE, value |-> data]

\* the issues of a result, always taken to be absent
resultIssuesDropped(result) == <<>>

\* result.issues ?? []
resultIssues(result) ==
  IF "issues" \in DOMAIN result THEN result.issues ELSE <<>>

\* validateOutput(format, data, options): the error it throws (None when it
\* returns) and the arguments of the calls it made to options.validate
validateOutput(format, data, options) ==
  IF options.validate = None THEN [thrown |-> None, calls |-> <<>>]
  ELSE LET parsed == validationData(format, data, options)
       IN IF ~parsed.ok
          THEN [thrown |-> ValidationError(format,
                             <<[path |-> "$", message |-> parsed.message]>>,
                             options.label),
                calls |-> <<>>]
          ELSE LET arg == [format |-> format, data |-> parsed.value,
                           schema |-> options.schema]
                   result == options.validate.result
               IN IF result.valid
                  THEN [thrown |-> None, calls |-> <<arg>>]
                  ELSE [thrown |-> ValidationError(format, resultIssues(result),
                                                   options.label),
                        calls |-> <<arg>>]

\* json() reading the padding before it validates
jsonPaddingFirst(w, data, options) ==
  [w |-> IF validateOutput("json", data, options).thrown = None
         THEN pushPadded(w, json(data))
         ELSE [parts |-> w.parts, skip |-> padding(w).skip],
   v |-> validateOutput("json", data, options)]

\* json(data, options): the Writer's fields afterwards and what validateOutput did
jsonWith(w, data, options) ==
  [w |-> IF validateOutput("json", data, options).thrown = None
         THEN pushPadded(w, json(data))
         ELSE w,
   v |-> validateOutput("json", data, options)]

\* yaml(data, options)
yamlWith(w, data, options) ==
  [w |-> IF validateOutput("yaml", data, options).thrown = None
         THEN pushPadded(w, yaml(data))
         ELSE w,
   v |-> validateOutput("yaml", data, options)]

\* the record of a json()/yaml() call: a call record with the arguments, the
\* error thrown and the validator calls
VCall(op, on, pre, data, options, r) ==
  [op |-> op, on |-> on, pre |-> pre,
   pad |-> IF r.v.thrown = None THEN padding(pre).p ELSE <<>>,
   body |-> IF r.v.thrown # None THEN <<>>
            ELSE IF op = "json" THEN json(data) ELSE yaml(data),
   added |-> r.v.thrown = None, padded |-> r.v.thrown = None,
   data |-> data, options |-> options,
   thrown |-> r.v.thrown, calls |-> r.v.calls]

Issue1 == [path |-> "p", message |-> "m"]
Issue2 == [message |-> "n"]

\* the results an injected validator may return
Results ==
  {[valid |-> TRUE], [valid |-> FALSE], [valid |-> FALSE, issues |-> <<>>],
   [valid |-> FALSE, issues |-> <<Issue1, Issue2>>]}

Validators == {None} \cup {[k |-> "fn", result |-> r] : r \in Results}

Parsers == {None, [throws |-> TRUE], [throws |-> FALSE, returns |-> N(7)]}

OptionsSet ==
  {[validate |-> v, parseYaml |-> p, schema |-> None, label |-> None] :
     v \in Validators, p \in Parsers}
  \cup {[validate |-> v, parseYaml |-> None, schema |-> S(A), label |-> S(<<"L">>)] :
          v \in Validators}

DataSet == {S(<<"1", "2">>), S(<<"{">>), N(7)}

\* store the fields w2 of Writer i after a json()/yaml() call
StoreValidated(i, w2, call) ==
  /\ heap' = [heap EXCEPT ![ws[i].arr] = w2.parts]
  /\ ws' = [ws EXCEPT ![i].skip = w2.skip]
  /\ h' = [cur |-> call, prev |-> NoCall]
  /\ clean' = clean

JsonWith(i) ==
  \E data \in DataSet, options \in OptionsSet :
    LET r == jsonWith(View(i), data, options)
    IN /\ Live(i)
       /\ Room
       /\ StoreValidated(i, r.w, VCall("json", i, View(i), data, options, r))

YamlWith(i) ==
  \E data \in DataSet, options \in OptionsSet :
    LET r == yamlWith(View(i), data, options)
    IN /\ Live(i)
       /\ Room
       /\ StoreValidated(i, r.w, VCall("yaml", i, View(i), data, options, r))

NextValidate == JsonWith(1) \/ YamlWith(1) \/ DWrite(1) \/ NextLine(1)

InitValidate ==
  /\ heap = [a \in Arrays |-> <<>>]
  /\ ws = [i \in Writers |-> IF i = 1 THEN [arr |-> 1, skip |-> FALSE]
                                      ELSE [arr |-> 0, skip |-> FALSE]]
  /\ h = [cur |-> NoCall, prev |-> NoCall]
  /\ clean = TRUE

SpecValidate == InitValidate /\ [][NextValidate]_vars

\* the last call was json() or yaml() with its options
Validated == "thrown" \in DOMAIN h.cur

\* C11: when json()/yaml() fails validation a ValidationError is raised and
\* the Writer is left exactly as before the call: no fragment added, the
\* rendered text identical, the pending nextLine flag unchanged.
C11_FailedValidationLeavesWriter ==
  (Validated /\ h.cur.thrown # None) =>
    /\ h.cur.thrown.name = "ValidationError"
    /\ View(1) = h.cur.pre
    /\ toString(View(1)) = toString(h.cur.pre)

C11_Witness ==
  /\ Validated /\ h.cur.thrown # None
  /\ h.cur.pre.skip /\ h.cur.pre.parts # <<>>
  /\ h.cur.calls # <<>>

\* C12 (as stated): every ValidationError raised by json()/yaml() carries
\* the format of the call and a non-empty list of issues, whatever the
\* injected validator returned.
C12_ErrorHasIssues ==
  (Validated /\ h.cur.thrown # None) =>
    /\ h.cur.thrown.format = h.cur.op
    /\ h.cur.thrown.issues # <<>>

\* C12 (amended): every ValidationError raised by json()/yaml() carries the
\* format of the call and the issues of the failure: the single issue at
\* path "$" of a failed parse, or exactly the issues the validator reported,
\* which is the empty list when its result has none.
C12_ErrorCarriesReportedIssues ==
  (Validated /\ h.cur.thrown # None) =>
    /\ h.cur.thrown.format = h.cur.op
    /\ IF h.cur.calls = <<>>
       THEN /\ Len(h.cur.thrown.issues) = 1
            /\ h.cur.thrown.issues[1].path = "$"
       ELSE LET result == h.cur.options.validate.result
            IN IF "issues" \in DOMAIN result
               THEN h.cur.thrown.issues = result.issues
               ELSE h.cur.thrown.issues = <<>>

C12_Witness ==
  /\ Validated /\ h.cur.thrown # None
  /\ h.cur.op = "yaml"
  /\ h.cur.thrown.format = "yaml"
  /\ h.cur.thrown.issues = <<Issue1, Issue2>>

\* the parse step the call needs has failed
ParseFails(call) ==
  \/ /\ call.op = "json" /\ call.data.k = "s"
     /\ ~JSONparse(call.data.v).ok
  \/ /\ call.op = "yaml" /\ call.data.k = "s"
     /\ call.options.parseYaml # None
     /\ call.options.parseYaml.throws

\* the value the validator is to receive
ExpectedData(call) ==
  IF call.op = "json" /\ call.data.k = "s" THEN JSONparse(call.data.v).value
  ELSE IF call.op = "yaml" /\ call.data.k = "s" /\ call.options.parseYaml # None
  THEN call.options.parseYaml.returns
  ELSE call.data

NoOptions == [validate |-> None, parseYaml |-> None, schema |-> None, label |-> None]

\* C13: json()/yaml() append their code block iff no validator is supplied,
\* or every required parse succeeded and the validator returned valid; the
\* validator is called at most once, only when supplied, with the parsed
\* value (JSON string; YAML string with parseYaml) or else the original data,
\* and the schema; the appended text is that of the call without options.
C13_AppendIffValidated ==
  Validated =>
    /\ h.cur.added <=>
         \/ h.cur.options.validate = None
         \/ ~ParseFails(h.cur) /\ h.cur.options.validate.result.valid
    /\ Len(h.cur.calls) <= 1
    /\ h.cur.options.validate = None => h.cur.calls = <<>>
    /\ h.cur.calls # <<>> =>
         /\ ~ParseFails(h.cur)
         /\ h.cur.calls[1].format = h.cur.op
         /\ h.cur.calls[1].schema = h.cur.options.schema
         /\ h.cur.calls[1].data = ExpectedData(h.cur)
    /\ h.cur.added =>
         View(1) = IF h.cur.op = "json"
                   THEN jsonWith(h.cur.pre, h.cur.data, NoOptions).w
                   ELSE yamlWith(h.cur.pre, h.cur.data, NoOptions).w

C13_Witness ==
  /\ Validated /\ h.cur.added
  /\ h.cur.op = "json" /\ h.cur.data = S(<<"1", "2">>)
  /\ h.cur.calls # <<>>
  /\ h.cur.calls[1].data = N(12)
  /\ h.cur.pre.parts # <<>>

\* ------------------------------------------------------------------------
\* Escaping layer (safe mode)
\* ------------------------------------------------------------------------
\* the backslash character
BS == "\\"

\* value.replace(/&/g, '&amp;').replace(/</g, '&lt;').replace(/>/g, '&gt;')
escapeXmlChar(c) ==
  IF c = "&" THEN <<"&", "a", "m", "p", ";">>
  ELSE IF c = "<" THEN <<"&", "l", "t", ";">>
  ELSE IF c = ">" THEN <<"&", "g", "t", ";">>
  ELSE <<c>>

escapeXmlText(value) == ConcatAll(MapSeq(escapeXmlChar, value))

\* the characters of /([\\`*_~()|!])/, '[' and ']'
MarkdownPunctuation == {BS, BT, "*", "_", "~", "(", ")", "|", "!", "[", "]"}

escapePunctuation(c) == IF c \in MarkdownPunctuation THEN <<BS, c>> ELSE <<c>>

\* the length of the run of characters of set cs the text starts with
RECURSIVE LeadingRun(_, _)
LeadingRun(t, cs) ==
  IF t = <<>> \/ t[1] \notin cs THEN 0 ELSE 1 + LeadingRun(Tail(t), cs)

Digits == {"0", "1", "2", "3", "4", "5", "6", "7", "8", "9"}

\* /\s/ within a line
Whitespace == {" ", "\t", "\n"}

escapeMarkdownLineStart(line) ==
  LET indent == LeadingRun(line, Whitespace)
      lead == SubSeq(line, 1, indent)
      rest == SubSeq(line, indent + 1, Len(line))
      hashes == LeadingRun(rest, {"#"})
      digits == LeadingRun(rest, Digits)
  IN IF hashes \in 1..6 /\ Len(rest) > hashes /\ rest[hashes + 1] \in Whitespace
     THEN lead \o <<BS>> \o rest
     ELSE IF rest # <<>> /\ rest[1] = ">"
     THEN lead \o <<BS>> \o rest
     ELSE IF Len(rest) >= 2 /\ rest[1] \in {"-", "+", "*"} /\ rest[2] \in Whitespace
     THEN lead \o <<BS>> \o rest
     ELSE IF /\ digits >= 1 /\ Len(rest) >= digits + 2
             /\ rest[digits + 1] = "." /\ rest[digits + 2] \in Whitespace
     THEN lead \o SubSeq(rest, 1, digits) \o <<BS>>
          \o SubSeq(rest, digits + 1, Len(rest))
     ELSE line

escapeMarkdownText(value) ==
  LET escaped == ConcatAll(MapSeq(escapePunctuation, escapeXmlText(value)))
  IN JoinWith(MapSeq(escapeMarkdownLineStart, SplitLines(escaped)), <<NL>>)

\* the length of the longest run of character c in the text
RECURSIVE LongestRun(_, _)
LongestRun(t, c) ==
  IF t = <<>> THEN 0
  ELSE LET n == LeadingRun(t, {c})
       IN IF n = 0 THEN LongestRun(Tail(t), c)
          ELSE LET m == LongestRun(SubSeq(t, n + 1, Len(t)), c)
               IN IF n >= m THEN n ELSE m

wrapInlineCode(value) ==
  LET fenceSize == LongestRun(value, BT) + 1
      fence == Repeat(BT, fenceSize)
      needsPadding == value # <<>> /\ (IsSpace(value[1]) \/ IsSpace(value[Len(value)]))
      content == IF needsPadding THEN <<SP>> \o value \o <<SP>> ELSE value
  IN fence \o content \o fence

UpperCase == <<"A", "B", "C", "D", "E", "F", "G", "H", "I", "J", "K", "L", "M",
               "N", "O", "P", "Q", "R", "S", "T", "U", "V", "W", "X", "Y", "Z">>
LowerCase == <<"a", "b", "c", "d", "e", "f", "g", "h", "i", "j", "k", "l", "m",
               "n", "o", "p", "q", "r", "s", "t", "u", "v", "w", "x", "y", "z">>

toLowerCaseChar(c) ==
  IF \E k \in 1..26 : UpperCase[k] = c
  THEN LowerCase[CHOOSE k \in 1..26 : UpperCase[k] = c]
  ELSE c

\* String.prototype.toLowerCase
toLowerCase(t) == MapSeq(toLowerCaseChar, t)

\* String.prototype.startsWith
StartsWith(t, pre) == Len(t) >= Len(pre) /\ SubSeq(t, 1, Len(pre)) = pre

IsLowerLetter(c) == \E k \in 1..26 : LowerCase[k] = c

\* /^[a-z][a-z0-9+.-]*:/.test(lower)
HasScheme(lower) ==
  \E k \in 2..Len(lower) :
    /\ lower[k] = ":"
    /\ IsLowerLetter(lower[1])
    /\ \A m \in 2..(k - 1) :
         IsLowerLetter(lower[m]) \/ lower[m] \in Digits \/ lower[m] \in {"+", ".", "-"}

\* /^(https?|mailto):/.test(lower)
HasAllowedScheme(lower) ==
  \/ StartsWith(lower, <<"h", "t", "t", "p", ":">>)
  \/ StartsWith(lower, <<"h", "t", "t", "p", "s", ":">>)
  \/ StartsWith(lower, <<"m", "a", "i", "l", "t", "o", ":">>)

\* encodeURI, one character
encodeURIChar(c) ==
  IF c = " " THEN <<"%", "2", "0">>
  ELSE IF c = "%" THEN <<"%", "2", "5">>
  ELSE IF c = "\t" THEN <<"%", "0", "9">>
  ELSE IF c = "\n" THEN <<"%", "0", "A">>
  ELSE IF c = "<" THEN <<"%", "3", "C">>
  ELSE IF c = ">" THEN <<"%", "3", "E">>
  ELSE IF c = "[" THEN <<"%", "5", "B">>
  ELSE IF c = "]" THEN <<"%", "5", "D">>
  ELSE IF c = BS THEN <<"%", "5", "C">>
  ELSE IF c = BT THEN <<"%", "6", "0">>
  ELSE <<c>>

encodeURI(url) == ConcatAll(MapSeq(encodeURIChar, url))

escapeParenthesis(c) == IF c \in {"(", ")"} THEN <<BS, c>> ELSE <<c>>

escapeLinkDestination(url) == ConcatAll(MapSeq(escapeParenthesis, encodeURI(url)))

\* sanitizeLinkDestination that tests the scheme before lower-casing
sanitizeCaseSensitive(url) ==
  IF HasScheme(Trim(url)) /\ ~HasAllowedScheme(Trim(url))
  THEN <<"#">>
  ELSE escapeLinkDestination(Trim(url))

sanitizeLinkDestination(url) ==
  LET trimmed == Trim(url)
      lower == toLowerCase(trimmed)
  IN IF HasScheme(lower) /\ ~HasAllowedScheme(lower)
     THEN <<"#">>
     ELSE escapeLinkDestination(trimmed)

\* ------------------------------------------------------------------------
\* Safe mode: trusted strings, safe inline formatters, and the methods of a
\* Writer constructed with or without { safe: true }
\* ------------------------------------------------------------------------
\* new SafeString(value), a content value [k |-> "safe", v |-> text]
asSafeString(value) == [k |-> "safe", v |-> value]

toContentString(content, trimMode) ==
  IF content.k = "safe" THEN [value |-> content.v, isTrusted |-> TRUE]
  ELSE IF content.k = "w"
  THEN LET rawText == toString(content.v)
       IN [value |-> IF trimMode = "end" THEN TrimEnd(rawText)
                     ELSE IF trimMode = "both" THEN Trim(rawText) ELSE rawText,
           isTrusted |-> TRUE]
  ELSE [value |-> String(content), isTrusted |-> FALSE]

toSafeInlineText(content) ==
  LET c == toContentString(content, "both")
  IN IF c.isTrusted THEN c.value ELSE escapeMarkdownText(c.value)

safeBold(content) == asSafeString(<<"*", "*">> \o toSafeInlineText(content) \o <<"*", "*">>)
safeItalic(content) == asSafeString(<<"*">> \o toSafeInlineText(content) \o <<"*">>)
safeStrike(content) == asSafeString(<<"~", "~">> \o toSafeInlineText(content) \o <<"~", "~">>)
safeInlineCode(content) == asSafeString(wrapInlineCode(toContentString(content, "both").value))
safeLink(text, url) ==
  asSafeString(<<"[">> \o toSafeInlineText(text) \o <<"]", "(">>
                 \o sanitizeLinkDestination(url) \o <<")">>)
safeImage(alt, url) ==
  asSafeString(<<"!", "[">> \o toSafeInlineText(alt) \o <<"]", "(">>
                 \o sanitizeLinkDestination(url) \o <<")">>)

\* a fragment, or the TypeError of calling .replace on a value that is no string
Fragment(body) == [ok |-> TRUE, body |-> body]
TypeError == [ok |-> FALSE, body |-> <<>>]

\* contentText that escapes whatever it is given
contentTextAlwaysEscaped(safeMode, content, trimMode) ==
  IF safeMode THEN escapeMarkdownText(toContentString(content, trimMode).value)
  ELSE toContentString(content, trimMode).value

\* const { value, isTrusted } = toContentString(c, trimMode);
\* this.safeMode && !isTrusted ? escapeMarkdownText(value) : value
contentText(safeMode, content, trimMode) ==
  LET c == toContentString(content, trimMode)
  IN IF safeMode /\ ~c.isTrusted THEN escapeMarkdownText(c.value) ELSE c.value

\* write(...content): the joined text
writeJoinedIn(safeMode, content) ==
  JoinWith(MapSeq(LAMBDA c : contentText(safeMode, c, "end"), content), <<SP>>)

\* write(...content) on a Writer with fields w
writeIn(safeMode, w, content) ==
  LET joined == writeJoinedIn(safeMode, content)
  IN IF Len(w.parts) = 0 /\ Len(joined) = 0 THEN w
     ELSE pushPadded(w, joined \o <<NL>>)

headingIn(safeMode, level, content) ==
  Repeat("#", level) \o <<SP>>
    \o JoinWith(MapSeq(LAMBDA c : contentText(safeMode, c, "none"), content), <<SP>>)
    \o <<NL, NL>>

blockquoteIn(safeMode, lines) ==
  JoinWith(MapSeq(LAMBDA c : <<">", SP>> \o contentText(safeMode, c, "none"), lines),
           <<NL, ">", NL>>)
    \o <<NL, NL>>

unorderedItemIn(safeMode, item) ==
  IF item.k = "w" THEN nestedItem(item.v)
  ELSE <<"-", SP>> \o contentText(safeMode, item, "none")

\* unorderedList(...items), flat form
unorderedListIn(safeMode, items) ==
  JoinWith(MapSeq(LAMBDA item : unorderedItemIn(safeMode, item), items), <<NL>>)
    \o <<NL, NL>>

RECURSIVE orderedItemsIn(_, _, _)
orderedItemsIn(safeMode, items, index) ==
  IF items = <<>> THEN <<>>
  ELSE IF Head(items).k = "w"
  THEN <<nestedItem(Head(items).v)>> \o orderedItemsIn(safeMode, Tail(items), index)
  ELSE <<NumToString(index) \o <<".", SP>> \o contentText(safeMode, Head(items), "none")>>
         \o orderedItemsIn(safeMode, Tail(items), index + 1)

\* orderedList(...items), flat form
orderedListIn(safeMode, items) ==
  JoinWith(orderedItemsIn(safeMode, items, 1), <<NL>>) \o <<NL, NL>>

\* tasks(...items), flat form, items unchecked
tasksIn(safeMode, items) ==
  JoinWith(MapSeq(LAMBDA item :
                    <<"-", SP>> \o checkbox(FALSE)
                      \o TrimEnd(toString(writeIn(safeMode, empty, <<item>>))),
                  items), <<NL>>)
    \o <<NL, NL>>

\* callout(type, content) for a string content
calloutIn(safeMode, type, content) ==
  LET lines == SplitLines(contentText(safeMode, content, "none"))
      alertLines == <<(<<"[", "!">> \o type \o <<"]">>)>> \o lines
  IN JoinWith(MapSeq(LAMBDA line : <<">", SP>> \o line, alertLines), <<NL>>)
       \o <<NL, NL>>

\* tag(name, content) for a string or Writer content
tagIn(safeMode, name, content) ==
  <<"<">> \o name \o <<">", NL>>
    \o TrimEnd(contentText(safeMode, content, "none"))
    \o <<NL, "<", "/">> \o name \o <<">", NL>>

\* the cell of an array row: String(val ?? ''), escaped in safe mode
tableCellIn(safeMode, val) ==
  IF safeMode THEN escapeMarkdownText(String(val)) ELSE String(val)

\* table(headers, rows) for array rows
tableIn(safeMode, headers, rows) ==
  LET bar(cells) == <<"|", SP>> \o JoinWith(cells, <<SP, "|", SP>>) \o <<SP, "|">>
      safeHeaders == IF safeMode THEN MapSeq(escapeMarkdownText, headers) ELSE headers
      separatorRow == bar(MapSeq(LAMBDA hd : <<"-", "-", "-">>, headers))
      dataRows == JoinWith(MapSeq(LAMBDA row :
                                    bar(MapSeq(LAMBDA val : tableCellIn(safeMode, val), row)),
                                  rows), <<NL>>)
  IN bar(safeHeaders) \o <<NL>> \o separatorRow \o <<NL>> \o dataRows \o <<NL, NL>>

\* definitions(obj): obj is the sequence of its [key, value] entries; in safe
\* mode escapeMarkdownText(value) calls value.replace
definitionsIn(safeMode, obj) ==
  IF safeMode
  THEN IF \E k \in 1..Len(obj) : obj[k][2].k # "s" THEN TypeError
       ELSE Fragment(JoinWith(MapSeq(LAMBDA e : safeBold(S(e[1])).v \o <<":", SP>>
                                                  \o escapeMarkdownText(e[2].v), obj),
                              <<NL>>) \o <<NL, NL>>)
  ELSE Fragment(JoinWith(MapSeq(LAMBDA e : <<"*", "*">> \o e[1] \o <<"*", "*", ":", SP>>
                                             \o String(e[2]), obj),
                         <<NL>>) \o <<NL, NL>>)

\* section(name, builder, level): in safe mode escapeMarkdownText(name)
sectionIn(safeMode, name, builder, level) ==
  IF safeMode /\ name.k # "s" THEN TypeError
  ELSE LET title == IF safeMode THEN escapeMarkdownText(name.v) ELSE String(name)
       IN Fragment(Repeat("#", level) \o <<SP>> \o title \o <<NL, NL>>
                     \o toString(builder.v))

\* bold(content), italic(content), strike(content), code(content)
boldIn(safeMode, content) ==
  (IF safeMode THEN safeBold(content).v ELSE bold(content)) \o <<NL>>
italicIn(safeMode, content) ==
  (IF safeMode THEN safeItalic(content).v ELSE italic(content)) \o <<NL>>
strikeIn(safeMode, content) ==
  (IF safeMode THEN safeStrike(content).v ELSE strike(content)) \o <<NL>>
codeIn(safeMode, content) ==
  (IF safeMode THEN safeInlineCode(content).v ELSE code(content)) \o <<NL>>

\* link(text, url), image(alt, url)
linkIn(safeMode, text, url) ==
  (IF safeMode THEN safeLink(text, url).v ELSE link(text, url)) \o <<NL>>
imageIn(safeMode, alt, url) ==
  (IF safeMode THEN safeImage(alt, url).v ELSE image(alt, url)) \o <<NL>>

\* ------------------------------------------------------------------------
\* A safe Writer (Writer 1) and a non-safe Writer (Writer 2) given the same
\* calls
\* ------------------------------------------------------------------------
Url == <<"/", "u">>

PlainTexts == {<<"a", "*">>, <<"#", SP, "a">>, <<"<", "b">>}

\* results of the safe inline formatters
SafeStrings ==
  {safeBold(S(<<"a", "*">>)), safeItalic(S(A)), safeStrike(S(A)),
   safeInlineCode(S(<<"a", BT>>)), safeLink(S(<<"[">>), Url), safeImage(S(A), Url)}

\* nested Writers, holding markdown of their own
NestedWriters == {W(raw(empty, <<"*", "b", "*", NL>>))}

StringLike == {S(t) : t \in PlainTexts} \cup SafeStrings

AnyContent == StringLike \cup {N(12)} \cup NestedWriters

\* the value with its text escaped once, when it is a plain value
EscapedOnce(v) == IF v.k \in {"s", "n"} THEN S(escapeMarkdownText(String(v))) ELSE v

\* the record of one call made on both Writers: the content value, what the
\* safe Writer and the non-safe Writer embedded, and what the non-safe
\* Writer embeds for the value escaped once
SCall(op, value, pre, safe, plain, escaped) ==
  [op |-> op, on |-> 1, pre |-> pre,
   pad |-> IF safe.ok THEN padding(pre).p ELSE <<>>, body |-> safe.body,
   added |-> safe.ok, padded |-> safe.ok,
   value |-> value, thrown |-> ~safe.ok,
   plainBody |-> plain.body, escapedBody |-> escaped.body]

Both(op, value, safe, plain, escaped) ==
  LET after(w, r) == IF r.ok THEN pushPadded(w, r.body) ELSE w
  IN /\ Len(heap[1]) < MaxSafeParts /\ Len(heap[2]) < MaxSafeParts
     /\ heap' = [a \in Arrays |-> IF a = 1 THEN after(View(1), safe).parts
                                 ELSE after(View(2), plain).parts]
     /\ ws' = [i \in Writers |->
                 [arr |-> i, skip |-> IF i = 1 THEN after(View(1), safe).skip
                                      ELSE after(View(2), plain).skip]]
     /\ h' = [cur |-> SCall(op, value, View(1), safe, plain, escaped), prev |-> NoCall]
     /\ clean' = clean

SafeWrite ==
  \E v \in AnyContent, first \in {<<>>, <<S(A)>>} :
    /\ Live(1)
    /\ Both("write", v,
            Fragment(writeJoinedIn(TRUE, first \o <<v>>) \o <<NL>>),
            Fragment(writeJoinedIn(FALSE, first \o <<v>>) \o <<NL>>),
            Fragment(writeJoinedIn(FALSE, first \o <<EscapedOnce(v)>>) \o <<NL>>))

SafeHeading ==
  \E v \in StringLike :
    /\ Live(1)
    /\ Both("heading", v, Fragment(headingIn(TRUE, 2, <<v>>)),
            Fragment(headingIn(FALSE, 2, <<v>>)),
            Fragment(headingIn(FALSE, 2, <<EscapedOnce(v)>>)))

SafeBlockquote ==
  \E v \in StringLike :
    /\ Live(1)
    /\ Both("blockquote", v, Fragment(blockquoteIn(TRUE, <<v, S(B)>>)),
            Fragment(blockquoteIn(FALSE, <<v, S(B)>>)),
            Fragment(blockquoteIn(FALSE, <<EscapedOnce(v), S(B)>>)))

SafeUnorderedList ==
  \E v \in AnyContent :
    /\ Live(1)
    /\ Both("unorderedList", v, Fragment(unorderedListIn(TRUE, <<S(B), v>>)),
            Fragment(unorderedListIn(FALSE, <<S(B), v>>)),
            Fragment(unorderedListIn(FALSE, <<S(B), EscapedOnce(v)>>)))

SafeOrderedList ==
  \E v \in AnyContent :
    /\ Live(1)
    /\ Both("orderedList", v, Fragment(orderedListIn(TRUE, <<v, S(B)>>)),
            Fragment(orderedListIn(FALSE, <<v, S(B)>>)),
            Fragment(orderedListIn(FALSE, <<EscapedOnce(v), S(B)>>)))

SafeTasks ==
  \E v \in AnyContent :
    /\ Live(1)
    /\ Both("tasks", v, Fragment(tasksIn(TRUE, <<v>>)),
            Fragment(tasksIn(FALSE, <<v>>)),
            Fragment(tasksIn(FALSE, <<EscapedOnce(v)>>)))

SafeCallout ==
  \E v \in StringLike :
    /\ Live(1)
    /\ Both("callout", v, Fragment(calloutIn(TRUE, <<"T", "I", "P">>, v)),
            Fragment(calloutIn(FALSE, <<"T", "I", "P">>, v)),
            Fragment(calloutIn(FALSE, <<"T", "I", "P">>, EscapedOnce(v))))

SafeTag ==
  \E v \in StringLike \cup NestedWriters :
    /\ Live(1)
    /\ Both("tag", v, Fragment(tagIn(TRUE, <<"t">>, v)),
            Fragment(tagIn(FALSE, <<"t">>, v)),
            Fragment(tagIn(FALSE, <<"t">>, EscapedOnce(v))))

SafeTable ==
  \E v \in StringLike :
    /\ Live(1)
    /\ Both("table", v, Fragment(tableIn(TRUE, <<A>>, <<(<<v>>)>>)),
            Fragment(tableIn(FALSE, <<A>>, <<(<<v>>)>>)),
            Fragment(tableIn(FALSE, <<A>>, <<(<<EscapedOnce(v)>>)>>)))

SafeDefinitions ==
  \E v \in StringLike :
    /\ Live(1)
    /\ Both("definitions", v, definitionsIn(TRUE, <<(<<A, v>>)>>),
            definitionsIn(FALSE, <<(<<A, v>>)>>),
            definitionsIn(FALSE, <<(<<A, EscapedOnce(v)>>)>>))

SafeSection ==
  \E v \in StringLike :
    /\ Live(1)
    /\ Both("section", v, sectionIn(TRUE, v, F(childLine), 2),
            sectionIn(FALSE, v, F(childLine), 2),
            sectionIn(FALSE, EscapedOnce(v), F(childLine), 2))

SafeAppend ==
  \E v \in NestedWriters :
    /\ Live(1)
    /\ Both("append", v, Fragment(toString(v.v)), Fragment(toString(v.v)),
            Fragment(toString(v.v)))

SafeBoldMethod ==
  \E v \in AnyContent :
    /\ Live(1)
    /\ Both("bold", v, Fragment(boldIn(TRUE, v)), Fragment(boldIn(FALSE, v)),
            Fragment(boldIn(FALSE, EscapedOnce(v))))

SafeLinkMethod ==
  \E v \in StringLike \cup NestedWriters :
    /\ Live(1)
    /\ Both("link", v, Fragment(linkIn(TRUE, v, Url)), Fragment(linkIn(FALSE, v, Url)),
            Fragment(linkIn(FALSE, EscapedOnce(v), Url)))

NextSafe ==
  \/ SafeWrite \/ SafeHeading \/ SafeBlockquote \/ SafeUnorderedList
  \/ SafeOrderedList \/ SafeTasks \/ SafeCallout \/ SafeTag \/ SafeTable
  \/ SafeDefinitions \/ SafeSection \/ SafeAppend \/ SafeBoldMethod
  \/ SafeLinkMethod

InitSafe ==
  /\ heap = [a \in Arrays |-> <<>>]
  /\ ws = [i \in Writers |-> [arr |-> i, skip |-> FALSE]]
  /\ h = [cur |-> NoCall, prev |-> NoCall]
  /\ clean = TRUE

SpecSafe == InitSafe /\ [][NextSafe]_vars

\* the last call embedded a content value in both Writers
Embedded == "plainBody" \in DOMAIN h.cur

\* the operations of C14 that accept a content value
ContentOps ==
  {"write", "heading", "blockquote", "unorderedList", "orderedList", "tasks",
   "callout", "tag", "table", "definitions", "section"}

\* C14: escaping is never applied twice: for every result s of a safe inline
\* formatter and every safe-mode operation that accepts a content value, the
\* text embedded for s is the text the operation embeds for s on a non-safe
\* Writer.
C14_NoDoubleEscape ==
  (Embedded /\ h.cur.op \in ContentOps /\ h.cur.value.k = "safe") =>
    /\ ~h.cur.thrown
    /\ h.cur.body = h.cur.plainBody

\* TRUE iff the text t holds the text u as a contiguous part
Contains(t, u) == \E k \in 0..(Len(t) - Len(u)) : SubSeq(t, k + 1, k + Len(u)) = u

\* the text of a content value before any escaping
RawText(v) == IF v.k = "w" THEN Trim(toString(v.v)) ELSE String(v)

\* C16: in a safe Writer the text of a nested Writer (write, append, tag,
\* list items, inline formatters) is embedded with no escaping, as in a
\* non-safe Writer; every plain string or number passed directly to write,
\* heading, blockquote, flat list items, callout, tag, table cells and
\* definitions values is embedded as its text escaped once; a non-safe
\* Writer embeds the text as it is.
C16_EscapeOnlyPlainValues ==
  Embedded =>
    /\ h.cur.value.k = "w" =>
         /\ ~h.cur.thrown
         /\ h.cur.body = h.cur.plainBody
    /\ (/\ h.cur.value.k \in {"s", "n"}
        /\ h.cur.op \in ContentOps \ {"section", "tasks"}) =>
         /\ ~h.cur.thrown
         /\ h.cur.body = h.cur.escapedBody
         /\ Contains(h.cur.body, escapeMarkdownText(String(h.cur.value)))
    /\ Contains(h.cur.plainBody, RawText(h.cur.value))

C16_Witness ==
  /\ Embedded
  /\ h.cur.op = "unorderedList" /\ h.cur.value.k = "w"
  /\ Contains(h.cur.body, <<"*", "b", "*">>)
  /\ Contains(h.cur.body, escapeMarkdownText(B))

\* ------------------------------------------------------------------------
\* The escaping layer applied to drawn inputs
\* ------------------------------------------------------------------------
\* the texts of at most n characters over the alphabet cs
Texts(cs, n) == UNION {[1..k -> cs] : k \in 0..n}

MarkerAlphabet == {"#", "-", "1", ".", SP, "a", NL, ">"}

\* the arguments of write(...values): one text, or two
WriteValues ==
  {<<S(t)>> : t \in Texts(MarkerAlphabet, MaxTextLen)}
  \cup {<<S(t), S(u)>> : t \in Texts(MarkerAlphabet, MaxPairTextLen) \ {<<>>},
                         u \in Texts(MarkerAlphabet, MaxPairTextLen) \ {<<>>}}

CodeContents == Texts({BT, "a", SP}, MaxCodeLen)

Schemes ==
  {<<>>, <<"h", "t", "t", "p", ":">>, <<"H", "T", "T", "P", "S", ":">>,
   <<"m", "a", "i", "l", "t", "o", ":">>,
   <<"j", "a", "v", "a", "s", "c", "r", "i", "p", "t", ":">>,
   <<"J", "a", "v", "a", "S", "c", "r", "i", "p", "t", ":">>,
   <<"d", "a", "t", "a", ":">>, <<"x", "-", "y", ".", "z", "+", "1", ":">>,
   <<"h", "t", "t", "p", "x", ":">>, <<"1", "a", ":">>, <<"a", SP, "b", ":">>,
   <<"h", "t", "t", "p">>}

Urls ==
  {lead \o scheme \o rest :
     lead \in {<<>>, <<SP>>}, scheme \in Schemes,
     rest \in Texts({"/", "a", "(", ")", SP, "%", ":"}, MaxUrlRest)}

\* an input: the arguments of a write(), the content of inline code, or a URL
ValuesInput(x) == [kind |-> "values", values |-> x]
CodeInput(x) == [kind |-> "code", content |-> x]
UrlInput(x) == [kind |-> "url", url |-> x]

\* the record of an input and of what the call made with it rendered
ECall(op, input, output) ==
  [op |-> op, on |-> 1, pre |-> empty, pad |-> <<>>, body |-> output,
   added |-> TRUE, padded |-> TRUE, input |-> input]

Rendering(op, output) ==
  /\ heap' = [heap EXCEPT ![1] = <<output>>]
  /\ ws' = ws
  /\ h' = [cur |-> ECall(op, h.cur.input, output), prev |-> NoCall]
  /\ clean' = clean

\* write.safe(...values)
EscapeWrite ==
  /\ h.cur.op = "input" /\ h.cur.input.kind = "values"
  /\ writeJoinedIn(TRUE, h.cur.input.values) # <<>>
  /\ Rendering("write", toString(writeIn(TRUE, empty, h.cur.input.values)))

\* safe code(content) / inline(content), as formatter and as method
EscapeCode ==
  /\ h.cur.op = "input" /\ h.cur.input.kind = "code"
  /\ \/ Rendering("safeInlineCode", safeInlineCode(S(h.cur.input.content)).v)
     \/ Rendering("code", codeIn(TRUE, S(h.cur.input.content)))

\* safe link(text, url) and image(alt, url), as formatters and as methods
EscapeUrl ==
  /\ h.cur.op = "input" /\ h.cur.input.kind = "url"
  /\ \/ Rendering("safeLink", safeLink(S(A), h.cur.input.url).v)
     \/ Rendering("safeImage", safeImage(S(A), h.cur.input.url).v)
     \/ Rendering("link", linkIn(TRUE, S(A), h.cur.input.url))
     \/ Rendering("image", imageIn(TRUE, S(A), h.cur.input.url))

NextEscape == EscapeWrite \/ EscapeCode \/ EscapeUrl

\* the state holding a drawn input, before the call made with it
Drawn(input) ==
  /\ heap = [a \in Arrays |-> <<>>]
  /\ ws = [i \in Writers |-> IF i = 1 THEN [arr |-> 1, skip |-> FALSE]
                                      ELSE [arr |-> 0, skip |-> FALSE]]
  /\ h = [cur |-> [op |-> "input", input |-> input], prev |-> NoCall]
  /\ clean = TRUE

InitEscape ==
  \/ \E x \in WriteValues : Drawn(ValuesInput(x))
  \/ \E x \in CodeContents : Drawn(CodeInput(x))
  \/ \E x \in Urls : Drawn(UrlInput(x))

SpecEscape == InitEscape /\ [][NextEscape]_vars

\* the line begins, after optional whitespace, with a block marker
BeginsWithBlockMarker(line) ==
  LET rest == TrimStart(line)
      hashes == LeadingRun(rest, {"#"})
      digits == LeadingRun(rest, Digits)
  IN \/ hashes \in 1..6 /\ Len(rest) > hashes /\ IsSpace(rest[hashes + 1])
     \/ rest # <<>> /\ rest[1] = ">"
     \/ Len(rest) >= 2 /\ rest[1] \in {"-", "+", "*"} /\ IsSpace(rest[2])
     \/ /\ digits >= 1 /\ Len(rest) >= digits + 2
        /\ rest[digits + 1] = "." /\ IsSpace(rest[digits + 2])

\* C15: in a safe Writer, for every write(...values) of plain strings, no
\* line of the appended output begins, after optional leading whitespace,
\* with an unescaped heading marker, blockquote marker, list bullet or
\* ordered-list number.
C15_NoLineStartsWithMarker ==
  h.cur.op = "write" =>
    \A k \in 1..Len(SplitLines(h.cur.body)) :
      ~BeginsWithBlockMarker(SplitLines(h.cur.body)[k])

\* the rendered link or image without the newline a method adds
Inline(call) ==
  IF call.op \in {"link", "image", "code"}
  THEN SubSeq(call.body, 1, Len(call.body) - 1) ELSE call.body

\* the text in front of the destination: "[a](" or "![a]("
LinkOpening(call) ==
  IF call.op \in {"image", "safeImage"} THEN <<"!", "[", "a", "]", "(">>
  ELSE <<"[", "a", "]", "(">>

\* the destination of the rendered link or image
Destination(call) ==
  SubSeq(Inline(call), Len(LinkOpening(call)) + 1, Len(Inline(call)) - 1)

\* the position of the first ':' of the text, 0 when it has none
FirstColon(t) ==
  IF \E k \in 1..Len(t) : t[k] = ":"
  THEN CHOOSE k \in 1..Len(t) : t[k] = ":" /\ \A m \in 1..(k - 1) : t[m] # ":"
  ELSE 0

\* the trimmed URL starts with a scheme: a letter, then letters, digits,
\* '+', '.' or '-', up to the first ':'
UrlHasScheme(url) ==
  LET t == Trim(url)
      k == FirstColon(t)
  IN /\ k >= 2
     /\ IsLowerLetter(toLowerCaseChar(t[1]))
     /\ \A m \in 2..(k - 1) :
          \/ IsLowerLetter(toLowerCaseChar(t[m]))
          \/ t[m] \in Digits \cup {"+", ".", "-"}

UrlScheme(url) == toLowerCase(SubSeq(Trim(url), 1, FirstColon(Trim(url)) - 1))

AllowedSchemes ==
  {<<"h", "t", "t", "p">>, <<"h", "t", "t", "p", "s">>,
   <<"m", "a", "i", "l", "t", "o">>}

\* the character a percent escape stands for
PercentDecode(a, b) ==
  IF <<a, b>> = <<"2", "0">> THEN " "
  ELSE IF <<a, b>> = <<"2", "5">> THEN "%"
  ELSE IF <<a, b>> = <<"0", "9">> THEN "\t"
  ELSE IF <<a, b>> = <<"0", "A">> THEN "\n"
  ELSE "?"

\* the destination with its percent escapes and its backslashes in front of
\* parentheses undone
RECURSIVE Unescaped(_)
Unescaped(d) ==
  IF d = <<>> THEN <<>>
  ELSE IF Len(d) >= 2 /\ d[1] = BS /\ d[2] \in {"(", ")"}
  THEN <<d[2]>> \o Unescaped(SubSeq(d, 3, Len(d)))
  ELSE IF Len(d) >= 3 /\ d[1] = "%"
  THEN <<PercentDecode(d[2], d[3])>> \o Unescaped(SubSeq(d, 4, Len(d)))
  ELSE <<d[1]>> \o Unescaped(Tail(d))

\* C17: in safe mode, for every URL given to link or image (formatter or
\* method): a URL with a scheme other than http, https or mailto (compared
\* case-insensitively, after trimming) renders the destination '#'; any other
\* URL keeps its (trimmed) destination apart from percent-encoding and
\* backslash-escaped parentheses.
C17_UnsafeSchemeBecomesHash ==
  h.cur.op \in {"safeLink", "safeImage", "link", "image"} =>
    LET url == h.cur.input.url
        d == Destination(h.cur)
    IN /\ Inline(h.cur) = LinkOpening(h.cur) \o d \o <<")">>
       /\ IF UrlHasScheme(url) /\ UrlScheme(url) \notin AllowedSchemes
          THEN d = <<"#">>
          ELSE /\ Unescaped(d) = Trim(url)
               /\ \A k \in 1..Len(d) :
                    /\ d[k] # SP
                    /\ d[k] \in {"(", ")"} => (k > 1 /\ d[k - 1] = BS)

C17_Witness ==
  /\ h.cur.op = "image"
  /\ StartsWith(h.cur.input.url, <<SP, "J", "a", "v", "a", "S", "c", "r", "i", "p", "t", ":">>)
  /\ Destination(h.cur) = <<"#">>

\* the text read backwards
RECURSIVE Reverse(_)
Reverse(t) == IF t = <<>> THEN <<>> ELSE Reverse(Tail(t)) \o <<t[1]>>

\* C18: safe inline code is an opening fence of N backticks, the content and
\* a closing fence of N backticks, N one more than the longest backtick run
\* of the content; in the output the backtick run at the very start and the
\* one at the very end have length exactly N and every other run is shorter.
C18_FenceLongerThanContent ==
  h.cur.op \in {"safeInlineCode", "code"} =>
    LET content == h.cur.input.content
        out == Inline(h.cur)
        n == LongestRun(content, BT) + 1
    IN /\ \/ out = Repeat(BT, n) \o content \o Repeat(BT, n)
          \/ out = Repeat(BT, n) \o <<SP>> \o content \o <<SP>> \o Repeat(BT, n)
       /\ LeadingRun(out, {BT}) = n
       /\ LeadingRun(Reverse(out), {BT}) = n
       /\ LongestRun(SubSeq(out, n + 1, Len(out) - n), BT) < n

----------------------------------------------------------------------------
\* Lists: the calls made on a list builder, nested builders included, and
\* the list rendered from them

ListMethods == {"unorderedList", "list", "orderedList"}

\* the builder frames that are open: the method each was opened by and the
\* calls made on it so far; the first frame is the call on the Writer
Building == h.cur.op = "builder"

Frame(m, calls) == [m |-> m, calls |-> calls]

\* a call on the innermost open builder
BuilderCall(c) ==
  LET stack == h.cur.stack
      top == stack[Len(stack)]
  IN /\ Building
     /\ h.cur.n < MaxBuilderCalls
     /\ h' = [h EXCEPT !.cur.stack[Len(stack)] = Frame(top.m, Append(top.calls, c)),
                       !.cur.n = @ + 1]
     /\ UNCHANGED <<heap, ws, clean>>

\* l.item(content)
BuilderItem ==
  \E content \in {<<S(A)>>} :
    /\ Live(1)
    /\ BuilderCall([m |-> "item", content |-> content])

\* l.orderedList(...items)
BuilderFlat ==
  \E m \in {"orderedList"} :
    /\ Live(1)
    /\ BuilderCall([m |-> m, args |-> Flat(<<S(A), S(B)>>)])

\* l.list(builder), l.orderedList(builder): the nested builder function
\* starts to run
BuilderNested ==
  \E m \in {"list", "orderedList"} :
    /\ Live(1)
    /\ Building
    /\ h.cur.n < MaxBuilderCalls
    /\ h' = [h EXCEPT !.cur.stack = Append(@, Frame(m, <<>>)), !.cur.n = @ + 1]
    /\ UNCHANGED <<heap, ws, clean>>

\* the nested builder function returns: its list is rendered in a Writer of
\* its own and pushed on the enclosing builder's items
BuilderReturn ==
  LET stack == h.cur.stack
      n == Len(stack)
      sub == stack[n]
      outer == stack[n - 1]
  IN /\ Live(1)
     /\ Building
     /\ n > 1
     /\ h' = [h EXCEPT !.cur.stack =
                [k \in 1..(n - 1) |->
                   IF k = n - 1
                   THEN Frame(outer.m, Append(outer.calls,
                                [m |-> sub.m, args |-> Built(sub.calls)]))
                   ELSE stack[k]]]
     /\ UNCHANGED <<heap, ws, clean>>

ListCall(m, args) ==
  LET fragment == IF m = "orderedList" THEN orderedList(args) ELSE unorderedList(args)
      pre == View(1)
      pad == padding(pre).p
      call == [op |-> m, on |-> 1, pre |-> pre, pad |-> pad, body |-> fragment,
               added |-> TRUE, padded |-> TRUE, args |-> args]
  IN /\ heap' = [heap EXCEPT ![ws[1].arr] = pushPadded(pre, fragment).parts]
     /\ ws' = [ws EXCEPT ![1].skip = pushPadded(pre, fragment).skip]
     /\ h' = [cur |-> call, prev |-> NoCall]
     /\ clean' = clean

\* the outermost builder function returns and the list is appended
BuiltList ==
  /\ Live(1)
  /\ Building
  /\ Len(h.cur.stack) = 1
  /\ ListCall(h.cur.stack[1].m, Built(h.cur.stack[1].calls))

\* a Writer holding two lines and a Writer holding an ordered list
childTwoLines == write(childLine, <<S(B)>>)
childOrdered == pushPadded(empty, orderedList(Flat(<<S(A), S(B)>>)))

FlatItems == {S(A), N(2), W(childTwoLines), W(childOrdered)}

RECURSIVE FlatLists(_)
FlatLists(n) ==
  IF n = 0 THEN {<<>>}
  ELSE FlatLists(n - 1) \cup
       {Append(l, x) : l \in {y \in FlatLists(n - 1) : Len(y) = n - 1}, x \in FlatItems}

\* unorderedList(...items), list(...items), orderedList(...items)
FlatList ==
  \E items \in FlatLists(MaxFlatItems) :
    /\ Live(1)
    /\ Building
    /\ h.cur.n = 0
    /\ ListCall(h.cur.stack[1].m, Flat(items))

NextLists ==
  \/ BuilderItem \/ BuilderFlat \/ BuilderNested \/ BuilderReturn
  \/ BuiltList \/ FlatList

InitLists ==
  \E m \in ListMethods :
    /\ heap = [a \in Arrays |-> <<>>]
    /\ ws = [i \in Writers |-> IF i = 1 THEN [arr |-> 1, skip |-> FALSE]
                                        ELSE [arr |-> 0, skip |-> FALSE]]
    /\ h = [cur |-> [op |-> "builder", stack |-> <<Frame(m, <<>>)>>, n |-> 0],
            prev |-> NoCall]
    /\ clean = TRUE

SpecLists == InitLists /\ [][NextLists]_vars

\* what the arguments of a list call ask for, line by line: the nesting
\* depth of the line, the number of the item (0 when the line is not an
\* item of an ordered list), whether the line is an item, and its text
ListLine(depth, number, item, text) ==
  [depth |-> depth, number |-> number, item |-> item, text |-> text]

\* right-trimming a nested list drops the blank lines it ends with
RECURSIVE TrimBlankLines(_)
TrimBlankLines(lines) ==
  IF lines # <<>> /\ ~lines[Len(lines)].item /\ lines[Len(lines)].text = <<>>
  THEN TrimBlankLines(SubSeq(lines, 1, Len(lines) - 1))
  ELSE lines

RECURSIVE AskedLines(_, _, _, _)
AskedLines(args, ordered, depth, number) ==
  IF args.items = <<>> THEN <<>>
  ELSE LET x == Head(args.items)
           rest == [builder |-> args.builder, items |-> Tail(args.items)]
           scalar == IF args.builder THEN x.m = "item" ELSE x.k # "w"
           text == IF args.builder THEN String(x.content[1]) ELSE String(x)
           blank == <<ListLine(depth + 1, 0, FALSE, <<>>)>>
           sub == TrimBlankLines(AskedLines(x.args, x.m = "orderedList", depth + 1, 1))
           writerLines == SplitLines(TrimEnd(toString(x.v)))
       IN IF scalar
          THEN <<ListLine(depth, IF ordered THEN number ELSE 0, TRUE, text)>>
                 \o AskedLines(rest, ordered, depth, number + 1)
          ELSE (IF args.builder
                THEN (IF sub = <<>> THEN blank ELSE sub)
                ELSE [k \in 1..Len(writerLines) |->
                        ListLine(depth + 1, 0, FALSE, writerLines[k])])
                 \o AskedLines(rest, ordered, depth, number)

ListRendered == h.cur.op \in ListMethods

Asked == AskedLines(h.cur.args, h.cur.op = "orderedList", 0, 1)

\* the lines of the appended list, without the two newlines that end it
ListLines == SplitLines(SubSeq(h.cur.body, 1, Len(h.cur.body) - 2))

Indent(line) == LeadingRun(line, {SP})

Unindented(line) == SubSeq(line, Indent(line) + 1, Len(line))

Numbered == {k \in 1..Len(Asked) : Asked[k].number > 0}

----------------------------------------------------------------------------
\* Task lists: tasks(builder) with the calls made on its builder, and
\* tasks(...items)

TaskBuilding == h.cur.op = "tasksBuilder"

\* a call on the builder handed to the callback of tasks()
TaskBuilderCall(c) ==
  /\ TaskBuilding
  /\ Len(h.cur.calls) < MaxTaskCalls
  /\ h' = [h EXCEPT !.cur.calls = Append(@, c)]
  /\ UNCHANGED <<heap, ws, clean>>

\* l.item(content)
TaskBuilderItem ==
  /\ Live(1)
  /\ TaskBuilderCall([m |-> "item", content |-> <<S(A)>>])

\* l.task(checked, content)
TaskBuilderTask ==
  \E checked \in BOOLEAN :
    /\ Live(1)
    /\ TaskBuilderCall([m |-> "task", checked |-> checked, content |-> <<S(A)>>])

\* l.todo(content)
TaskBuilderTodo ==
  /\ Live(1)
  /\ TaskBuilderCall([m |-> "todo", content |-> <<S(A)>>])

\* l.done(content)
TaskBuilderDone ==
  /\ Live(1)
  /\ TaskBuilderCall([m |-> "done", content |-> <<S(A)>>])

\* l.comment(content)
TaskBuilderComment ==
  /\ Live(1)
  /\ TaskBuilderCall([m |-> "comment", content |-> B])

TasksCall(args) ==
  LET fragment == tasks(args)
      pre == View(1)
      call == [op |-> "tasks", on |-> 1, pre |-> pre, pad |-> padding(pre).p,
               body |-> fragment, added |-> TRUE, padded |-> TRUE, args |-> args]
  IN /\ heap' = [heap EXCEPT ![ws[1].arr] = pushPadded(pre, fragment).parts]
     /\ ws' = [ws EXCEPT ![1].skip = pushPadded(pre, fragment).skip]
     /\ h' = [cur |-> call, prev |-> NoCall]
     /\ clean' = clean

\* the callback returns and the task list is appended
TasksBuilt ==
  /\ Live(1)
  /\ TaskBuilding
  /\ TasksCall(Built(h.cur.calls))

Pair(v, checked) == [k |-> "p", v |-> v, checked |-> checked]

FlatTaskItems == {S(A), N(2), Pair(S(A), TRUE), Pair(S(B), FALSE)}

RECURSIVE FlatTasks(_)
FlatTasks(n) ==
  IF n = 0 THEN {<<>>}
  ELSE FlatTasks(n - 1) \cup
       {Append(l, x) : l \in {y \in FlatTasks(n - 1) : Len(y) = n - 1},
                       x \in FlatTaskItems}

\* tasks(...items)
TasksFlat ==
  \E items \in FlatTasks(MaxFlatItems) :
    /\ Live(1)
    /\ TaskBuilding
    /\ h.cur.calls = <<>>
    /\ TasksCall(Flat(items))

NextTasks ==
  \/ TaskBuilderItem \/ TaskBuilderTask \/ TaskBuilderTodo \/ TaskBuilderDone
  \/ TaskBuilderComment \/ TasksBuilt \/ TasksFlat

InitTasks ==
  /\ heap = [a \in Arrays |-> <<>>]
  /\ ws = [i \in Writers |-> IF i = 1 THEN [arr |-> 1, skip |-> FALSE]
                                      ELSE [arr |-> 0, skip |-> FALSE]]
  /\ h = [cur |-> [op |-> "tasksBuilder", calls |-> <<>>], prev |-> NoCall]
  /\ clean = TRUE

SpecTasks == InitTasks /\ [][NextTasks]_vars

\* what a task list was asked to hold, item by item: whether the item is a
\* scalar, the builder method that added it ("flat" for tasks(...items)),
\* whether it was explicitly ticked, and its text
TaskAsked(scalar, via, checked, text) ==
  [scalar |-> scalar, via |-> via, checked |-> checked, text |-> text]

AskedTask(args, k) ==
  LET x == args.items[k]
  IN IF ~args.builder
     THEN (IF x.k = "p" THEN TaskAsked(TRUE, "flat", x.checked, String(x.v))
                        ELSE TaskAsked(TRUE, "flat", FALSE, String(x)))
     ELSE CASE x.m = "item" -> TaskAsked(TRUE, "item", FALSE, String(x.content[1]))
            [] x.m = "task" -> TaskAsked(TRUE, "task", x.checked, String(x.content[1]))
            [] x.m = "todo" -> TaskAsked(TRUE, "todo", FALSE, String(x.content[1]))
            [] x.m = "done" -> TaskAsked(TRUE, "done", TRUE, String(x.content[1]))
            [] x.m = "comment" -> TaskAsked(FALSE, "comment", FALSE, x.content)

TasksRendered == h.cur.op = "tasks"

TaskLines == SplitLines(SubSeq(h.cur.body, 1, Len(h.cur.body) - 2))

TickedBox == <<"-", SP, "[", "x", "]", SP>>
OpenBox == <<"-", SP, "[", SP, "]", SP>>

\* C21 as stated: every scalar item of tasks(), whichever builder method
\* added it, is a line starting with '- [x] ' when explicitly ticked and
\* with '- [ ] ' otherwise
C21_EveryTaskHasCheckbox ==
  (TasksRendered /\ h.cur.args.items # <<>>) =>
    /\ Len(TaskLines) = Len(h.cur.args.items)
    /\ \A k \in 1..Len(TaskLines) :
         LET asked == AskedTask(h.cur.args, k)
         IN asked.scalar =>
              StartsWith(TaskLines[k], IF asked.checked THEN TickedBox ELSE OpenBox)

\* C21: every scalar item of tasks() given in the flat form or added by
\* task(), todo() or done() is a line starting with '- [x] ' when
\* explicitly ticked and with '- [ ] ' otherwise; an item added by item()
\* is the line '- ' followed by its text, without a checkbox
C21_TaskCheckboxUnlessItem ==
  (TasksRendered /\ h.cur.args.items # <<>>) =>
    /\ Len(TaskLines) = Len(h.cur.args.items)
    /\ \A k \in 1..Len(TaskLines) :
         LET asked == AskedTask(h.cur.args, k)
         IN /\ (asked.scalar /\ asked.via # "item") =>
                 TaskLines[k] = (IF asked.checked THEN TickedBox ELSE OpenBox)
                                  \o asked.text
            /\ asked.via = "item" => TaskLines[k] = <<"-", SP>> \o asked.text

C21_Witness ==
  /\ TasksRendered
  /\ h.cur.args.builder
  /\ \E j, k, l \in 1..Len(h.cur.args.items) :
       /\ AskedTask(h.cur.args, j).via = "item"
       /\ AskedTask(h.cur.args, k).via \in {"task", "done"}
       /\ AskedTask(h.cur.args, k).checked
       /\ AskedTask(h.cur.args, l).via = "todo"

----------------------------------------------------------------------------
\* Merging: a receiving Writer (Writer 1) and a second Writer that is merged
\* into it, or is the child handed to one of its builder callbacks, or is
\* derived from it.  Here ws[i] also holds the Writer's safeMode and how the
\* Writer came to be: "new", "child" or "derived".

Star == <<"*">>

\* the parts array of a child: the child shares the receiver's array
childArrayOfParent(parent, fresh) == parent

\* new ProseWriter(...): private parts: string[] = [] is an array of its own
childArray(parent, fresh) == fresh

\* the record of a call; merged is the text of Writer 2 that Writer 1 took
\* in, at this call or at an earlier one
MCall(op, on, pre, body, merged) ==
  [op |-> op, on |-> on, pre |-> pre, pad |-> <<>>, body |-> body,
   added |-> TRUE, padded |-> FALSE, merged |-> merged]

Held == IF "merged" \in DOMAIN h.cur THEN h.cur.merged ELSE <<>>

MergeRoom == Len(heap[1]) + Len(heap[2]) < MaxMergeParts

\* store the fields w2 of Writer i
MStore(i, w2, call) ==
  /\ heap' = [heap EXCEPT ![ws[i].arr] = w2.parts]
  /\ ws' = [ws EXCEPT ![i].skip = w2.skip]
  /\ h' = [cur |-> call, prev |-> NoCall]
  /\ clean' = clean

\* Writer 1 pushes a fragment that holds the text of Writer 2
Merge(op, w2, fragment) ==
  /\ Live(1) /\ Live(2)
  /\ MergeRoom
  /\ MStore(1, w2, MCall(op, 1, View(1), fragment, toString(View(2))))

\* R.append(S)
MergeAppend ==
  /\ ws[2].from = "new"
  /\ Merge("append", append(View(1), View(2)), toString(View(2)))

\* R.write(S)
MergeWrite ==
  /\ ws[2].from = "new"
  /\ Merge("write", writeIn(ws[1].safe, View(1), <<W(View(2))>>),
           writeJoinedIn(ws[1].safe, <<W(View(2))>>) \o <<NL>>)

\* R.tag(name, S)
MergeTag ==
  LET fragment == tagIn(ws[1].safe, <<"t">>, W(View(2)))
  IN /\ ws[2].from = "new"
     /\ Merge("tag", pushPadded(View(1), fragment), fragment)

\* R.delimit(open, close, S)
MergeDelimit ==
  LET fragment == delimit(<<"(">>, <<")">>, W(View(2)))
  IN /\ ws[2].from = "new"
     /\ Merge("delimit", pushPadded(View(1), fragment), fragment)

\* R.unorderedList(S)
MergeListItem ==
  LET fragment == unorderedListIn(ws[1].safe, <<W(View(2))>>)
  IN /\ ws[2].from = "new"
     /\ Merge("unorderedList", pushPadded(View(1), fragment), fragment)

\* R.table([header], [[S]]): the cell is String(S)
MergeTableCell ==
  LET fragment == tableIn(ws[1].safe, <<A>>, <<(<<S(toString(View(2)))>>)>>)
  IN /\ ws[2].from = "new"
     /\ Merge("table", pushPadded(View(1), fragment), fragment)

MergeOps == {"append", "write", "tag", "delimit", "unorderedList", "table"}

\* a builder method of Writer 1: the child is made with the flag childSafe,
\* the callback writes content on it, Writer 1 pushes the fragment made of
\* the child's text, and the callback keeps the child (Writer 2)
Spawn(op, childSafe, content, fragment(_)) ==
  LET arr == childArray(ws[1].arr, 2)
      made == [heap EXCEPT ![arr] = <<>>]
      child == writeIn(childSafe, [parts |-> made[arr], skip |-> FALSE], content)
      built == [made EXCEPT ![arr] = child.parts]
      pre == [parts |-> built[ws[1].arr], skip |-> ws[1].skip]
      body == fragment(child)
      after == pushPadded(pre, body)
  IN /\ Live(1) /\ ~Live(2)
     /\ MergeRoom
     /\ heap' = [built EXCEPT ![ws[1].arr] = after.parts]
     /\ ws' = [ws EXCEPT ![1].skip = after.skip,
                         ![2] = [arr |-> arr, skip |-> child.skip,
                                 safe |-> childSafe, from |-> "child"]]
     /\ h' = [cur |-> MCall(op, 1, pre, body, toString(child)), prev |-> NoCall]
     /\ clean' = clean

BuilderContents == {<<>>, <<S(Star)>>}

\* R.section(name, builder)
SectionBuilder ==
  \E content \in BuilderContents :
    /\ Live(1)
    /\ Spawn("section", ws[1].safe, content,
             LAMBDA child : sectionIn(ws[1].safe, S(A), F(child), 2).body)

\* R.tag(name, builder)
TagBuilder ==
  \E content \in BuilderContents :
    /\ Live(1)
    /\ Spawn("tag", ws[1].safe, content,
             LAMBDA child : tagIn(ws[1].safe, <<"t">>, W(child)))

\* R.codeblock(language, builder): the child is new ProseWriter()
CodeblockBuilder ==
  \E content \in BuilderContents :
    /\ Live(1)
    /\ Spawn("codeblock", FALSE, content,
             LAMBDA child : codeblock(<<"j", "s">>, F(child)))

\* R.callout(type, builder)
CalloutBuilder ==
  \E content \in BuilderContents :
    /\ Live(1)
    /\ Spawn("callout", ws[1].safe, content,
             LAMBDA child : calloutIn(FALSE, <<"T", "I", "P">>, S(TrimEnd(toString(child)))))

BuilderOps == {"section", "tag", "codeblock", "callout"}

\* a Writer derived from Writer 1
Derived(op, derived) ==
  /\ Live(1) /\ ~Live(2)
  /\ heap' = [heap EXCEPT ![2] = derived.parts]
  /\ ws' = [ws EXCEPT ![2] = [arr |-> 2, skip |-> derived.skip,
                              safe |-> ws[1].safe, from |-> "derived"]]
  /\ h' = [cur |-> MCall(op, 1, View(1), <<>>, <<>>), prev |-> NoCall]
  /\ clean' = clean

\* R.clone(), R.compact(), R.trim()
MergeClone ==
  /\ Live(1)
  /\ Derived("clone", clone(View(1)))

MergeCompact ==
  /\ Live(1)
  /\ Derived("compact", compact(View(1)))

MergeTrim ==
  /\ Live(1)
  /\ Derived("trim", trim(View(1)))


\* later calls on Writer 2
SourceWrite ==
  /\ Live(2)
  /\ MergeRoom
  /\ MStore(2, writeIn(ws[2].safe, View(2), <<S(Star)>>),
            MCall("write", 2, View(2), Star \o <<NL>>, Held))

SourceNextLine ==
  /\ Live(2)
  /\ ~ws[2].skip
  /\ MStore(2, nextLine(View(2)), MCall("nextLine", 2, View(2), <<>>, Held))

SourceRaw ==
  \E content \in {<<>>, <<"x">>} :
    /\ Live(2)
    /\ MergeRoom
    /\ MStore(2, raw(View(2), content), MCall("raw", 2, View(2), content, Held))

\* R.nextLine()
ReceiverNextLine ==
  /\ Live(1)
  /\ ~ws[1].skip
  /\ MStore(1, nextLine(View(1)), MCall("nextLine", 1, View(1), <<>>, Held))

NextMerge ==
  \/ MergeAppend \/ MergeWrite \/ MergeTag \/ MergeDelimit \/ MergeListItem
  \/ MergeTableCell \/ SectionBuilder \/ TagBuilder \/ CodeblockBuilder
  \/ CalloutBuilder \/ MergeClone \/ MergeCompact \/ MergeTrim
  \/ SourceWrite \/ SourceNextLine \/ SourceRaw \/ ReceiverNextLine

\* Writer 1 is new ProseWriter(content, {safe}); Writer 2 is not made yet
\* or is another new Writer
InitMerge ==
  \E r \in {empty, constructor(A)}, safe \in BOOLEAN,
     s \in {[live |-> FALSE, w |-> empty, safe |-> FALSE],
            [live |-> TRUE, w |-> empty, safe |-> FALSE],
            [live |-> TRUE, w |-> constructor(Star), safe |-> TRUE]} :
    /\ heap = [a \in Arrays |-> IF a = 1 THEN r.parts
                                ELSE IF s.live THEN s.w.parts ELSE <<>>]
    /\ ws = [i \in Writers |->
               IF i = 1 THEN [arr |-> 1, skip |-> FALSE, safe |-> safe, from |-> "new"]
               ELSE [arr |-> IF s.live THEN 2 ELSE 0, skip |-> FALSE,
                     safe |-> s.safe, from |-> "new"]]
    /\ h = [cur |-> NoCall, prev |-> NoCall]
    /\ clean = TRUE

SpecMerge == InitMerge /\ [][NextMerge]_vars

\* C22: once Writer 1 holds the text of Writer 2 (merged by append, write,
\* tag, delimit, a list item or a table cell, or taken from the child of a
\* builder callback), no call on Writer 2 changes what Writer 1 renders
C22_MergedTextIsACopy ==
  [][h'.cur.on = 2 => toString(View(1))' = toString(View(1))]_vars

C22_Witness ==
  /\ Held # <<>>
  /\ h.cur.on = 2
  /\ h.cur.op \in {"write", "raw"}
  /\ toString(View(2)) # toString(h.cur.pre)
  /\ toString(View(2)) # Held
  /\ Contains(toString(View(1)), TrimEnd(Held))

\* C23: append(S) pushes the padding prefix followed by the text S renders,
\* unchanged, when that text is not empty; when it is empty the receiver's
\* fragments and its pending nextLine flag stay as they were
C23_AppendVerbatimOrNothing ==
  (h.cur.op = "append" /\ h.cur.on = 1) =>
    IF h.cur.merged # <<>>
    THEN /\ View(1).parts =
              Append(h.cur.pre.parts, RulePrefix(h.cur.pre) \o h.cur.merged)
         /\ ~View(1).skip
         /\ h.cur.merged = toString(View(2))
    ELSE View(1) = h.cur.pre

C23_Witness ==
  /\ h.cur.op = "append" /\ h.cur.on = 1
  /\ h.cur.merged = <<>>
  /\ heap[2] # <<>>
  /\ h.cur.pre.skip
  /\ h.cur.pre.parts # <<>>
  /\ View(1).skip

\* C26: the safe-mode flag of a Writer never changes, and a Writer that
\* comes into being as the child of a builder method of Writer 1, or as its
\* clone, compact or trim, has the flag of Writer 1
C26_SafeModeInherited ==
  [][/\ \A i \in Writers : Live(i) => ws'[i].safe = ws[i].safe
     /\ (~Live(2) /\ ws'[2].arr # 0) => ws'[2].safe = ws'[1].safe]_vars

----------------------------------------------------------------------------
\* Builder form and flat form of the list methods, in normal and safe mode

\* this.createChildWriter().write(...content).toString().trimEnd()
writtenTextIn(safeMode, content) ==
  TrimEnd(toString(writeIn(safeMode, empty, content)))

\* createListBuilder of a Writer with the flag safeMode: the items collected
\* by the calls made on the builder
RECURSIVE getItemsIn(_, _)
getItemsIn(safeMode, calls) ==
  IF calls = <<>> THEN <<>>
  ELSE LET c == Head(calls)
           item ==
             CASE c.m = "item" -> S(writtenTextIn(safeMode, c.content))
               [] c.m = "task" ->
                    S(checkbox(c.checked) \o writtenTextIn(safeMode, c.content))
               [] c.m = "todo" ->
                    S(checkbox(FALSE) \o writtenTextIn(safeMode, c.content))
               [] c.m = "done" ->
                    S(checkbox(TRUE) \o writtenTextIn(safeMode, c.content))
               [] c.m = "orderedList" ->
                    W(pushPadded(empty, orderedListIn(safeMode, c.items)))
       IN <<item>> \o getItemsIn(safeMode, Tail(calls))

\* unorderedList(builder), list(builder) and tasks(builder): `- ${item}`
builtList(items) ==
  JoinWith(MapSeq(unorderedItem, items), <<NL>>) \o <<NL, NL>>

\* orderedList(builder): `${index++}. ${item}`
builtOrderedList(items) ==
  JoinWith(orderedItems(items, 1), <<NL>>) \o <<NL, NL>>

\* the fragment of method(builder) for the items the builder collected
builtForm(method, items) ==
  IF method = "orderedList" THEN builtOrderedList(items) ELSE builtList(items)

\* the fragment of method(...items)
flatForm(safeMode, method, items) ==
  CASE method = "orderedList" -> orderedListIn(safeMode, items)
    [] method = "tasks" -> tasksIn(safeMode, items)
    [] OTHER -> unorderedListIn(safeMode, items)

Collecting == h.cur.op = "collecting"

Collect(c) ==
  /\ Collecting
  /\ Len(h.cur.calls) < MaxCollected
  /\ h' = [h EXCEPT !.cur.calls = Append(@, c)]
  /\ UNCHANGED <<heap, ws, clean>>

\* l.item(content)
CollectItem ==
  \E content \in {<<S(A)>>, <<S(Star)>>} :
    /\ Live(1)
    /\ Collect([m |-> "item", content |-> content])

\* l.task(checked, content)
CollectTask ==
  \E checked \in BOOLEAN :
    /\ Live(1)
    /\ Collect([m |-> "task", checked |-> checked, content |-> <<S(A)>>])

\* l.todo(content)
CollectTodo ==
  /\ Live(1)
  /\ Collect([m |-> "todo", content |-> <<S(A)>>])

\* l.done(content)
CollectDone ==
  /\ Live(1)
  /\ Collect([m |-> "done", content |-> <<S(A)>>])

\* l.orderedList(...items)
CollectNested ==
  /\ Live(1)
  /\ Collect([m |-> "orderedList", items |-> <<S(A), S(Star)>>])

\* the callback returns and the list is appended; flat is the fragment the
\* flat form of the same method makes of the collected items
BuiltCompared ==
  LET safeMode == ws[1].safe
      items == getItemsIn(safeMode, h.cur.calls)
      fragment == builtForm(h.cur.method, items)
      pre == View(1)
  IN /\ Live(1)
     /\ Collecting
     /\ heap' = [heap EXCEPT ![ws[1].arr] = pushPadded(pre, fragment).parts]
     /\ ws' = [ws EXCEPT ![1].skip = pushPadded(pre, fragment).skip]
     /\ h' = [cur |-> [op |-> h.cur.method, on |-> 1, pre |-> pre,
                       pad |-> padding(pre).p, body |-> fragment,
                       added |-> TRUE, padded |-> TRUE, calls |-> h.cur.calls,
                       flat |-> flatForm(safeMode, h.cur.method, items)],
              prev |-> NoCall]
     /\ clean' = clean

NextBuilt ==
  \/ CollectItem \/ CollectTask \/ CollectTodo \/ CollectDone \/ CollectNested
  \/ BuiltCompared

InitBuilt ==
  \E safe \in BOOLEAN, method \in {"unorderedList", "list", "orderedList", "tasks"} :
    /\ heap = [a \in Arrays |-> <<>>]
    /\ ws = [i \in Writers |->
               [arr |-> IF i = 1 THEN 1 ELSE 0, skip |-> FALSE, safe |-> safe,
                from |-> "new"]]
    /\ h = [cur |-> [op |-> "collecting", method |-> method, calls |-> <<>>],
            prev |-> NoCall]
    /\ clean = TRUE

SpecBuilt == InitBuilt /\ [][NextBuilt]_vars

\* C24: for list/unorderedList, orderedList and tasks, in normal and in safe
\* mode, the builder form renders the text the flat form of the same method
\* renders for the items the builder collected
C24_BuilderFormIsFlatForm ==
  "flat" \in DOMAIN h.cur => h.cur.body = h.cur.flat

----------------------------------------------------------------------------
\* section(name, builder, level) on Writer 1 against
\* heading(level, name).append(child) on Writer 2, both starting from the
\* same fields and receiving the same calls before and afterwards

\* the child Writer after the builder callback has run on it
SectionBuilders(safeMode) ==
  {empty, writeIn(safeMode, empty, <<S(Star)>>), raw(empty, <<NL>>),
   raw(empty, <<"x">>)}

SectionRoom == Len(heap[1]) < MaxSectionParts /\ Len(heap[2]) < MaxSectionParts

\* the same call on both Writers
InStep(op, w1, w2, sectioned) ==
  /\ heap' = [a \in Arrays |-> IF a = 1 THEN w1.parts ELSE w2.parts]
  /\ ws' = [i \in Writers |-> [ws[i] EXCEPT !.skip = IF i = 1 THEN w1.skip ELSE w2.skip]]
  /\ h' = [cur |-> [op |-> op, on |-> 1, sectioned |-> sectioned], prev |-> NoCall]
  /\ clean' = clean

\* w.section(name, builder, level) and w.heading(level, name).append(c)
SectionAgainstHeadingAppend ==
  \E child \in SectionBuilders(ws[1].safe), level \in {1, 2} :
    /\ Live(1)
    /\ SectionRoom
    /\ ~h.cur.sectioned
    /\ InStep("section",
              pushPadded(View(1), sectionIn(ws[1].safe, S(A), F(child), level).body),
              append(pushPadded(View(2), headingIn(ws[2].safe, level, <<S(A)>>)), child),
              TRUE)

BothWrite ==
  \E content \in {<<>>, <<S(B)>>} :
    /\ Live(1)
    /\ SectionRoom
    /\ InStep("write", writeIn(ws[1].safe, View(1), content),
              writeIn(ws[2].safe, View(2), content), h.cur.sectioned)

BothNextLine ==
  /\ Live(1)
  /\ ~ws[1].skip
  /\ InStep("nextLine", nextLine(View(1)), nextLine(View(2)), h.cur.sectioned)

BothSeparator ==
  /\ Live(1)
  /\ SectionRoom
  /\ InStep("separator", pushPadded(View(1), separator),
            pushPadded(View(2), separator), h.cur.sectioned)

NextSection ==
  SectionAgainstHeadingAppend \/ BothWrite \/ BothNextLine \/ BothSeparator

InitSection ==
  \E w \in {empty, constructor(A), raw(empty, <<"x">>)}, safe \in BOOLEAN :
    /\ heap = [a \in Arrays |-> w.parts]
    /\ ws = [i \in Writers |-> [arr |-> i, skip |-> FALSE, safe |-> safe, from |-> "new"]]
    /\ h = [cur |-> [op |-> "new", on |-> 0, sectioned |-> FALSE], prev |-> NoCall]
    /\ clean = TRUE

SpecSection == InitSection /\ [][NextSection]_vars

\* C25: w.section(name, builder, level) and w.heading(level, name).append(c),
\* with c the child on which builder ran, render the same text at once and
\* after every same sequence of later calls
C25_SectionIsHeadingAppend ==
  h.cur.sectioned => toString(View(1)) = toString(View(2))

----------------------------------------------------------------------------
\* xs is an initial part of ys
IsPrefixOf(xs, ys) == Len(xs) <= Len(ys) /\ SubSeq(ys, 1, Len(xs)) = xs

\* C27: every chainable call leaves the stored fragments in place, adding at
\* most new ones behind them, so the text rendered before the call starts
\* the text rendered after it
C27_FragmentsAppendOnly ==
  [][\A i \in Writers :
       Live(i) =>
         /\ ws'[i].arr = ws[i].arr
         /\ IsPrefixOf(heap[ws[i].arr], heap'[ws[i].arr])
         /\ Len(heap'[ws[i].arr]) <= Len(heap[ws[i].arr]) + 1
         /\ IsPrefixOf(toString(View(i)), toString(View(i))')]_vars

C27_Witness ==
  /\ h.prev.added /\ h.cur.added
  /\ h.cur.on = 1 /\ h.prev.on = 1
  /\ h.cur.op \notin {"write", "raw"}
  /\ Len(heap[1]) >= 2
  /\ h.cur.pad # <<>>
  /\ toString(View(1)) = toString(h.cur.pre) \o h.cur.pad \o h.cur.body

----------------------------------------------------------------------------
\* blockquote(...lines) for drawn line strings, on a normal and on a safe
\* Writer

QuoteAlphabet == {"a", ">", NL}

RECURSIVE QuoteArgs(_)
QuoteArgs(n) ==
  IF n = 0 THEN {<<>>}
  ELSE QuoteArgs(n - 1) \cup
       {Append(l, t) : l \in {y \in QuoteArgs(n - 1) : Len(y) = n - 1},
                       t \in Texts(QuoteAlphabet, MaxQuoteLen)}

Quoted(safeMode) ==
  LET lines == h.cur.lines
      fragment == blockquoteIn(safeMode, MapSeq(S, lines))
      pre == View(1)
  IN /\ Live(1)
     /\ h.cur.op = "lines"
     /\ heap' = [heap EXCEPT ![ws[1].arr] = pushPadded(pre, fragment).parts]
     /\ ws' = [ws EXCEPT ![1].skip = pushPadded(pre, fragment).skip]
     /\ h' = [cur |-> [op |-> "blockquote", on |-> 1, pre |-> pre,
                       pad |-> padding(pre).p, body |-> fragment,
                       added |-> TRUE, padded |-> TRUE, lines |-> lines,
                       safe |-> safeMode],
              prev |-> NoCall]
     /\ clean' = clean

\* write.blockquote(...lines)
QuoteNormal ==
  /\ Live(1)
  /\ Quoted(FALSE)

\* write.safe.blockquote(...lines)
QuoteSafe ==
  /\ Live(1)
  /\ Quoted(TRUE)

NextQuote == QuoteNormal \/ QuoteSafe

InitQuote ==
  \E lines \in QuoteArgs(MaxQuoteLines) :
    /\ heap = [a \in Arrays |-> <<>>]
    /\ ws = [i \in Writers |-> IF i = 1 THEN [arr |-> 1, skip |-> FALSE]
                                        ELSE [arr |-> 0, skip |-> FALSE]]
    /\ h = [cur |-> [op |-> "lines", lines |-> lines], prev |-> NoCall]
    /\ clean = TRUE

SpecQuote == InitQuote /\ [][NextQuote]_vars

\* the lines of the block, without the two newlines that end it
QuoteLines == SplitLines(SubSeq(h.cur.body, 1, Len(h.cur.body) - 2))

\* C28: for every blockquote(...lines) call and every choice of line
\* strings, each line of the block begins with '>', and between the lines
\* of two consecutive arguments there is exactly one bare '>' line
C28_EveryQuoteLineMarked ==
  (h.cur.op = "blockquote" /\ h.cur.lines # <<>>) =>
    /\ \A k \in 1..Len(QuoteLines) : StartsWith(QuoteLines[k], <<">">>)
    /\ Len(QuoteLines) = 2 * Len(h.cur.lines) - 1
    /\ \A k \in 1..(Len(h.cur.lines) - 1) : QuoteLines[2 * k] = <<">">>

----------------------------------------------------------------------------
\* every chainable call on Writer i except raw()
ChainNoRaw(i) ==
  \/ Write(i) \/ NextLine(i) \/ AppendWriter(i)
  \/ UnorderedList(i) \/ List(i) \/ OrderedList(i) \/ Tasks(i)
  \/ Heading(i) \/ Blockquote(i) \/ Codeblock(i) \/ Separator(i)
  \/ Json(i) \/ Yaml(i) \/ Tag(i) \/ Code(i) \/ Bold(i) \/ Italic(i)
  \/ Strike(i) \/ Link(i) \/ Image(i) \/ Section(i) \/ Table(i)
  \/ Definitions(i) \/ Comment(i) \/ Delimit(i)

NextNoRaw == ChainNoRaw(1)

SpecNoRaw == Init /\ [][NextNoRaw]_vars

\* the trailing newlines of a text, counted up to two
NewlinesUpToTwo(t) == IF TrailingNewlines(t) >= 2 THEN 2 ELSE TrailingNewlines(t)

\* C29: in every state reached without raw(), the last stored fragment ends
\* with as many newlines, counted up to two, as the whole rendered text, so
\* the padding prefix taken from the last fragment is the one the whole text
\* would give
C29_LastFragmentTellsPadding ==
  heap[1] # <<>> =>
    NewlinesUpToTwo(heap[1][Len(heap[1])]) = NewlinesUpToTwo(toString(View(1)))

----------------------------------------------------------------------------
\* clone(): Writer 1 is brought into some state, cloned into Writer 2, and
\* then both receive the same calls

Cloned == Live(2)

CloneRoom == Len(heap[1]) < MaxCloneParts

CStep(op, w1, w2) ==
  /\ heap' = [a \in Arrays |-> IF a = 1 THEN w1.parts
                               ELSE IF Cloned THEN w2.parts ELSE heap[a]]
  /\ ws' = [i \in Writers |->
              IF i = 1 THEN [ws[i] EXCEPT !.skip = w1.skip]
              ELSE IF Cloned THEN [ws[i] EXCEPT !.skip = w2.skip] ELSE ws[i]]
  /\ h' = [cur |-> Call(op, 1, View(1), <<>>, <<>>, FALSE, FALSE), prev |-> NoCall]
  /\ clean' = clean

\* write(...content) on the receiver and, once it exists, on the clone
CloneWrite ==
  \E content \in {<<>>, <<S(A)>>} :
    /\ Live(1)
    /\ CloneRoom
    /\ CStep("write", write(View(1), content), write(View(2), content))

\* nextLine() on both
CloneNextLine ==
  /\ Live(1)
  /\ ~ws[1].skip
  /\ CStep("nextLine", nextLine(View(1)), nextLine(View(2)))

\* heading(level, content) on both
CloneHeading ==
  /\ Live(1)
  /\ CloneRoom
  /\ CStep("heading", pushPadded(View(1), heading(1, <<A>>)),
           pushPadded(View(2), heading(1, <<A>>)))

\* raw(content) on both
CloneRaw ==
  /\ Live(1)
  /\ CloneRoom
  /\ CStep("raw", raw(View(1), <<"x">>), raw(View(2), <<"x">>))

\* const c = w.clone()
CloneNow ==
  /\ Live(1) /\ ~Cloned
  /\ Derive("clone", clone(View(1)), spreadCopy(ws[1].arr, 2))

NextClone == CloneWrite \/ CloneNextLine \/ CloneHeading \/ CloneRaw \/ CloneNow

SpecClone == InitDerive /\ [][NextClone]_vars

\* C30: from the moment of cloning on, the receiver and its clone render the
\* same text after every same sequence of calls, whatever state the
\* receiver was cloned in, a pending nextLine() included
C30_CloneRendersAlike ==
  Cloned => toString(View(1)) = toString(View(2))

====
